---- MODULE Spec2Model ----
(***************************************************************************)
(* The cron scheduler, the pipeline runner and the dedup cache of          *)
(* multi-worker (internal/scheduler, internal/storage, internal/executor). *)
(*                                                                         *)
(* A process is one goroutine: the body of a cron firing callback, or one  *)
(* HTTP handler calling Scheduler.TriggerTask.  "main" is the goroutine    *)
(* that calls Scheduler.Start and Scheduler.Stop.  Every database call and *)
(* every outbound call is one atomic step; a call made with a context that *)
(* is already done returns the context's error and changes nothing.        *)
(***************************************************************************)
EXTENDS Integers, Sequences, FiniteSets, TLC

\* ------------------------------------------------------------------ bounds
\* Calls (cron firings plus manual triggers) the environment makes in one
\* behaviour of the concurrent specification.
MaxCalls == 2
\* Calls (firings plus triggers) in one behaviour of the scenario
\* specification.
MaxRuns == 2
\* Ticks of the clock in one behaviour of the rate limit specification.
MaxTime == 3
\* firings and requests in a behaviour of the operations specification
MaxOps == 3

\* ------------------------------------------------------------- the world
TaskIDs == {"t1", "t2"}
Workers == {"w1", "w2"}
NoTask == "none"

\* model.TaskStatus
TaskStatusEnabled == "enabled"
TaskStatusDisabled == "disabled"
TaskStatusRunning == "running"

\* model.ExecutionStatus
ExecutionStatusRunning == "running"
ExecutionStatusCompleted == "completed"
ExecutionStatusFailed == "failed"

\* model.ScrapedItem: the fields the fingerprint reads
Item(id, url, source) == [id |-> id, url |-> url, source |-> source]
ItemA == Item("1", "a", "X")
ItemB == Item("2", "b", "X")
ItemC == Item("3", "c", "X")
ItemD == Item("4", "d", "X")

\* model.ExecutorResult: Data is nil, a []ScrapedItem, a string or a map
NilResult == [kind |-> "nil", items |-> <<>>, text |-> ""]
ScrapedResult(items) == [kind |-> "scraped", items |-> items, text |-> ""]
StringResult(s) == [kind |-> "string", items |-> <<>>, text |-> s]
MapResult == [kind |-> "map", items |-> <<>>, text |-> ""]

\* model.PipelineStep with the config keys the executors read
\* The value of a step config that has no webhook_url key.
NoWebhookKey == "(no key)"

Step(type, sources, dedupe, limit) ==
    [type |-> type, sources |-> sources, deduplicate |-> dedupe,
     limit |-> limit, webhook_url |-> NoWebhookKey, keys |-> {"sources"},
     \* the task_id the stored config carries, "" when it has no such key
     task_id |-> ""]
ScraperStep == Step("scraper", <<"X">>, FALSE, 0)
FilterStep == Step("filter", <<>>, FALSE, 0)
DedupeStep == Step("filter", <<>>, TRUE, 0)
AIStep == Step("ai_processor", <<>>, FALSE, 0)
DiscordStep == Step("discord", <<>>, FALSE, 0)

VARIABLES
    tasks,        \* table tasks: id -> row
    executions,   \* table executions: sequence of rows, the id is the index
    cache,        \* table content_cache: set of rows
    stepCalls,    \* every invocation of a step executor by executeStep
    running,      \* Scheduler.running
    ctxCancelled, \* Scheduler.ctx is cancelled
    cronRunning,  \* the cron dispatcher is started and not stopped
    cronEntries,  \* the live entries of the cron dispatcher
    lastEntryID,  \* the last cron.EntryID handed out
    entryMap,     \* Scheduler.entryMap: task id -> entry id (0: no key)
    muWriter,     \* the goroutine holding Scheduler.mu for writing
    pc,           \* position of each process
    loc,          \* locals of each process
    calls,        \* firings and triggers so far
    env,          \* what the outside world can answer in this behaviour
    now,          \* the wall clock, in ticks
    lastSend,     \* discord Executor.lastSend
    sends         \* every POST the discord executor made to a webhook

vars == <<tasks, executions, cache, stepCalls, running, ctxCancelled,
          cronRunning, cronEntries, lastEntryID, entryMap, muWriter,
          pc, loc, calls, env, now, lastSend, sends>>

storeVars == <<tasks, executions, cache, stepCalls>>
sinkVars == <<now, lastSend, sends>>
schedVars == <<running, ctxCancelled, cronRunning, cronEntries, lastEntryID,
               entryMap, muWriter>>

\* The goroutine that serves the task requests of the HTTP API.
Handlers == {"h1", "h2"}
Procs == Workers \cup Handlers \cup {"main"}
NoProc == "nobody"

\* ------------------------------------------------------------- helpers
RECURSIVE SeqToSet(_)
SeqToSet(s) == IF s = <<>> THEN {} ELSE {Head(s)} \cup SeqToSet(Tail(s))

IsPrefix(s, t) == Len(s) <= Len(t) /\ SubSeq(t, 1, Len(s)) = s

ToStr(n) ==
    CASE n = 0 -> "0" [] n = 1 -> "1" [] n = 2 -> "2" [] n = 3 -> "3"
      [] n = 4 -> "4" [] n = 5 -> "5" [] OTHER -> "n"

\* The locals of a process that runs nothing.
IdleLoc ==
    [kind |-> "none", entry |-> NoTask, timedOut |-> FALSE, task |-> NoTask,
     pipeline |-> <<>>, execID |-> 0, i |-> 0, stepResults |-> <<>>,
     current |-> NilResult, result |-> NilResult, err |-> "",
     srcs |-> <<>>, allItems |-> <<>>, errors |-> <<>>,
     pending |-> <<>>, newItems |-> <<>>, newHashes |-> <<>>,
     finalErr |-> "", readStatus |-> "", wake |-> 0,
     \* what the run has seen, kept for the properties: the cache when Run
     \* began, the items the sources returned, the step that returned empty
     \* data, the step during which the context was cancelled
     cache0 |-> {}, fetched |-> <<>>, emptyAt |-> 0, cancelledAt |-> 0,
     \* and what the step being executed has seen: the items whose cache
     \* lookup failed, and whether its AddBatch failed
     lookupFailed |-> {}, addFailed |-> FALSE,
     \* a request handler: the task as the repository returned it
     row |-> [status |-> "", schedule |-> <<>>],
     \* the discord executor: the webhook URL it sends to
     webhook |-> ""]

\* ctx.Done() of the context the process passes to every call it makes: a
\* firing runs under context.WithTimeout(s.ctx, 30 min), a trigger under the
\* request's context.
CtxDone(p) ==
    loc[p].kind = "schedule" /\ (ctxCancelled \/ loc[p].timedOut)

\* ------------------------------------------------------ cron expressions
\* A schedule is a Go string: a sequence of characters.
Hourly == <<"@", "h", "o", "u", "r", "l", "y">>
Daily == <<"@", "d", "a", "i", "l", "y">>
Weekly == <<"@", "w", "e", "e", "k", "l", "y">>
Monthly == <<"@", "m", "o", "n", "t", "h", "l", "y">>

\* strings.Join(parts, " ")
RECURSIVE JoinFields(_)
JoinFields(parts) ==
    IF parts = <<>> THEN <<>>
    ELSE IF Len(parts) = 1 THEN parts[1]
    ELSE parts[1] \o <<" ">> \o JoinFields(Tail(parts))

\* splitCronParts: the loop over the runes of the schedule, from the parts
\* found so far and the part being read.
RECURSIVE SplitFrom(_, _, _)
SplitFrom(schedule, parts, current) ==
    IF schedule = <<>>
    THEN IF current # <<>> THEN Append(parts, current) ELSE parts
    ELSE IF Head(schedule) \in {" ", "\t"}
    THEN IF current # <<>>
         THEN SplitFrom(Tail(schedule), Append(parts, current), <<>>)
         ELSE SplitFrom(Tail(schedule), parts, current)
    ELSE SplitFrom(Tail(schedule), parts, Append(current, Head(schedule)))

splitCronParts(schedule) == SplitFrom(schedule, <<>>, <<>>)

\* A variant of Normalize that leaves a schedule of five parts as it is.
NormalizeShortcutsOnly(schedule) ==
    IF schedule = Hourly
    THEN JoinFields(<<<<"0">>, <<"0">>, <<"*">>, <<"*">>, <<"*">>, <<"*">>>>)
    ELSE IF schedule = Daily
    THEN JoinFields(<<<<"0">>, <<"0">>, <<"0">>, <<"*">>, <<"*">>, <<"*">>>>)
    ELSE IF schedule = Weekly
    THEN JoinFields(<<<<"0">>, <<"0">>, <<"0">>, <<"*">>, <<"*">>, <<"0">>>>)
    ELSE IF schedule = Monthly
    THEN JoinFields(<<<<"0">>, <<"0">>, <<"0">>, <<"1">>, <<"*">>, <<"*">>>>)
    ELSE schedule

\* scheduleTask, the normalization: the four shortcuts become their six
\* field expressions, and a schedule of five parts gets "0 " in front.
Normalize(schedule) ==
    LET expanded ==
            IF schedule = Hourly
            THEN JoinFields(<<<<"0">>, <<"0">>, <<"*">>, <<"*">>, <<"*">>, <<"*">>>>)
            ELSE IF schedule = Daily
            THEN JoinFields(<<<<"0">>, <<"0">>, <<"0">>, <<"*">>, <<"*">>, <<"*">>>>)
            ELSE IF schedule = Weekly
            THEN JoinFields(<<<<"0">>, <<"0">>, <<"0">>, <<"*">>, <<"*">>, <<"0">>>>)
            ELSE IF schedule = Monthly
            THEN JoinFields(<<<<"0">>, <<"0">>, <<"0">>, <<"1">>, <<"*">>, <<"*">>>>)
            ELSE schedule
    IN IF Len(splitCronParts(expanded)) = 5
       THEN <<"0", " ">> \o expanded
       ELSE expanded

Digits == {"0", "1", "2", "3", "4", "5", "6", "7", "8", "9"}

DigitValue(c) ==
    CASE c = "0" -> 0 [] c = "1" -> 1 [] c = "2" -> 2 [] c = "3" -> 3
      [] c = "4" -> 4 [] c = "5" -> 5 [] c = "6" -> 6 [] c = "7" -> 7
      [] c = "8" -> 8 [] c = "9" -> 9

\* strconv.Atoi of a string of digits
RECURSIVE Atoi(_)
Atoi(part) ==
    IF part = <<>> THEN 0
    ELSE 10 * Atoi(SubSeq(part, 1, Len(part) - 1)) + DigitValue(part[Len(part)])

\* The bounds of the six fields of the parser cron.WithSeconds() installs:
\* second, minute, hour, day of month, month, day of week.
FieldBounds ==
    <<[min |-> 0, max |-> 59], [min |-> 0, max |-> 59], [min |-> 0, max |-> 23],
      [min |-> 1, max |-> 31], [min |-> 1, max |-> 12], [min |-> 0, max |-> 6]>>

\* The parser's reading of one field, for the fields the model feeds it: a
\* star, or a number within the bounds of its position.
FieldParses(part, k) ==
    \/ part = <<"*">>
    \/ /\ part # <<>>
       /\ \A j \in 1..Len(part) : part[j] \in Digits
       /\ Atoi(part) >= FieldBounds[k].min
       /\ Atoi(part) <= FieldBounds[k].max

\* The descriptors the parser knows ("@every <duration>" is not among the
\* schedules the model feeds it).
Descriptors ==
    {Hourly, Daily, Weekly, Monthly,
     <<"@", "y", "e", "a", "r", "l", "y">>,
     <<"@", "a", "n", "n", "u", "a", "l", "l", "y">>,
     <<"@", "m", "i", "d", "n", "i", "g", "h", "t">>}

\* cron.AddFunc's parse of the expression it is given, with the parser of
\* cron.WithSeconds(): a descriptor, or exactly six fields, each in bounds.
CronParses(spec) ==
    IF spec = <<>> THEN FALSE
    ELSE IF Head(spec) = "@" THEN spec \in Descriptors
    ELSE LET fields == splitCronParts(spec)
         IN /\ Len(fields) = 6
            /\ \A k \in 1..6 : FieldParses(fields[k], k)

\* ------------------------------------------------------------ the store
TaskRow(status, pipeline) ==
    [exists |-> TRUE, deleted |-> FALSE, status |-> status,
     schedule |-> Hourly, pipeline |-> pipeline, last_run_at |-> 0,
     next_run_at |-> 0]

\* A task id with no row in the table.
NoRow == [TaskRow(TaskStatusDisabled, <<>>) EXCEPT !.exists = FALSE]

\* ExecutionRepository.Create: a row at status running, no step results.
NewExecution(taskID, triggeredBy) ==
    [task_id |-> taskID, status |-> ExecutionStatusRunning,
     step_results |-> <<>>, error |-> "", finished |-> FALSE,
     triggered_by |-> triggeredBy, deleted |-> FALSE]

\* A variant of UpdateStatus whose UPDATE has no WHERE clause.
UpdateStatusEveryRow(t, status) ==
    [u \in TaskIDs |-> IF tasks[u].exists
                       THEN [tasks[u] EXCEPT !.status = status]
                       ELSE tasks[u]]

\* TaskRepository.UpdateStatus: UPDATE tasks SET status WHERE id.
UpdateStatus(t, status) ==
    IF tasks[t].exists THEN [tasks EXCEPT ![t].status = status] ELSE tasks

\* TaskRepository.UpdateLastRunOnly; the stamp is the id of the execution
\* whose run wrote it (it stands for time.Now() at the end of that run).
UpdateLastRunOnly(t, stamp) ==
    IF tasks[t].exists THEN [tasks EXCEPT ![t].last_run_at = stamp] ELSE tasks

\* TaskRepository.UpdateNextRun
UpdateNextRun(t, next) ==
    IF tasks[t].exists THEN [tasks EXCEPT ![t].next_run_at = next] ELSE tasks

\* ExecutionRepository.UpdateStepResults: UPDATE ... WHERE id, which
\* changes nothing once the row is deleted (as Complete and Fail).
UpdateStepResults(id, results) ==
    IF executions[id].deleted THEN executions
    ELSE [executions EXCEPT ![id].step_results = results]

\* A variant of Complete that writes only the last step result.
CompleteLastOnly(id, results) ==
    IF executions[id].deleted THEN executions
    ELSE
    [executions EXCEPT ![id].status = ExecutionStatusCompleted,
                       ![id].finished = TRUE,
                       ![id].step_results =
                           IF results = <<>> THEN <<>>
                           ELSE <<results[Len(results)]>>]

\* A variant of Complete whose UPDATE writes step_results only.
CompleteResultsOnly(id, results) ==
    IF executions[id].deleted THEN executions
    ELSE [executions EXCEPT ![id].step_results = results]

\* ExecutionRepository.Complete: status, finished_at, duration_ms and
\* step_results in one UPDATE.
Complete(id, results) ==
    IF executions[id].deleted THEN executions
    ELSE
    [executions EXCEPT ![id].status = ExecutionStatusCompleted,
                       ![id].finished = TRUE,
                       ![id].step_results = results]

\* A variant of Fail whose UPDATE leaves finished_at and duration_ms out.
FailStatusOnly(id, results, errMsg) ==
    IF executions[id].deleted THEN executions
    ELSE
    [executions EXCEPT ![id].status = ExecutionStatusFailed,
                       ![id].step_results = results,
                       ![id].error = errMsg]

\* ExecutionRepository.Fail: as Complete, with the error column.
Fail(id, results, errMsg) ==
    IF executions[id].deleted THEN executions
    ELSE
    [executions EXCEPT ![id].status = ExecutionStatusFailed,
                       ![id].finished = TRUE,
                       ![id].step_results = results,
                       ![id].error = errMsg]

\* CacheRepository.HashContent: SHA-256 of the content, hex encoded; two
\* contents have the same hash exactly when they are the same string.
HashContent(content) == <<"sha256", content>>

\* A variant of ExistsForTask that binds its two arguments the other way
\* round.
ExistsForTaskSwapped(hash, taskID) ==
    \E row \in cache : row.content_hash = taskID /\ row.task_id = hash

\* CacheRepository.ExistsForTask: COUNT(*) WHERE content_hash AND task_id.
ExistsForTask(hash, taskID) ==
    \E row \in cache : row.content_hash = hash /\ row.task_id = taskID

\* A variant of AddBatch whose INSERT has no ON CONFLICT clause and whose
\* table has no unique constraint.
RECURSIVE AddBatchToNoConflict(_, _, _, _)
AddBatchToNoConflict(rows, hashes, source, taskID) ==
    IF hashes = <<>> THEN rows
    ELSE AddBatchToNoConflict(
             rows \cup {[id |-> Cardinality(rows) + 1,
                         content_hash |-> Head(hashes), task_id |-> taskID,
                         source |-> source]},
             Tail(hashes), source, taskID)

\* CacheRepository.AddBatch: INSERT ... ON CONFLICT (content_hash, task_id)
\* DO NOTHING for every hash, in one transaction.  A row gets a fresh id.
RECURSIVE AddBatchTo(_, _, _, _)
AddBatchTo(rows, hashes, source, taskID) ==
    IF hashes = <<>> THEN rows
    ELSE LET h == Head(hashes)
             conflict == \E row \in rows :
                            row.content_hash = h /\ row.task_id = taskID
             rows1 == IF conflict THEN rows
                      ELSE rows \cup {[id |-> Cardinality(rows) + 1,
                                       content_hash |-> h, task_id |-> taskID,
                                       source |-> source]}
         IN AddBatchTo(rows1, Tail(hashes), source, taskID)

AddBatch(hashes, source, taskID) == AddBatchTo(cache, hashes, source, taskID)

\* A variant of AddBatch that runs its INSERTs outside a transaction: the
\* rows inserted before the failure stay.
AddBatchAutoCommit(hashes, source, taskID, failAt) ==
    IF failAt = 0 THEN AddBatch(hashes, source, taskID)
    ELSE AddBatchTo(cache, SubSeq(hashes, 1, failAt - 1), source, taskID)

\* CacheRepository.AddBatch with its failure: failAt is 0 when every INSERT
\* and the Commit succeed, k when the k-th INSERT fails and Len(hashes) + 1
\* when the Commit fails.  On a failure the deferred Rollback discards the
\* rows the transaction inserted.
AddBatchTx(hashes, source, taskID, failAt) ==
    IF failAt = 0 THEN AddBatch(hashes, source, taskID) ELSE cache

\* ------------------------------------------------------------ scheduler
\* cron.Cron: a live entry is its id, the task id its closure captured, the
\* expression it was parsed from and Next, counted in activations (0: the
\* zero time, set when the dispatcher runs).
CronEntry(id, taskID, spec, next) ==
    [id |-> id, task |-> taskID, spec |-> spec, next |-> next]

EntryOf(id) == CHOOSE e \in cronEntries : e.id = id

\* cron.Remove(entryID)
CronRemove(entries, id) == {e \in entries : e.id # id}

MuFree == muWriter = NoProc

\* Scheduler.scheduleTask on the scheduler state st = [entries, last, map,
\* err]: nothing for a task that is not enabled; an error and nothing else
\* when the normalized expression does not parse; otherwise a new entry
\* and its id in the entry map.  An entry added while the dispatcher runs
\* has its Next computed at once, one added before cron.Start() or after
\* cron.Stop() has the zero Next.
scheduleTask(st, t, status, schedule) ==
    IF status # TaskStatusEnabled THEN [st EXCEPT !.err = ""]
    ELSE IF ~CronParses(Normalize(schedule))
    THEN [st EXCEPT !.err = "invalid cron expression"]
    ELSE LET id == st.last + 1
             next == IF cronRunning THEN 1 ELSE 0
         IN [entries |-> st.entries \cup
                            {CronEntry(id, t, Normalize(schedule), next)},
             last |-> id,
             map |-> [st.map EXCEPT ![t] = id],
             err |-> ""]

\* The scheduler state the operations under Scheduler.mu work on.
SchedState ==
    [entries |-> cronEntries, last |-> lastEntryID, map |-> entryMap,
     err |-> ""]

\* A variant of RemoveEntries that forgets the key and leaves the entry
\* with the dispatcher.
RemoveEntriesKeyOnly(st, t) == [st EXCEPT !.map[t] = 0]

\* Scheduler.RemoveTask under the lock: cron.Remove of the entry the map
\* has for the task, and delete of the key.
RemoveEntries(st, t) ==
    IF st.map[t] # 0
    THEN [st EXCEPT !.entries = CronRemove(@, st.map[t]), !.map[t] = 0]
    ELSE st

\* A variant of UpdateEntries that installs the new entry without removing
\* the prior one.
UpdateEntriesKeepPrior(st, t, status, schedule) ==
    IF status = TaskStatusEnabled
    THEN scheduleTask(st, t, status, schedule)
    ELSE RemoveEntries(st, t)

\* Scheduler.UpdateTask under the lock: remove the entry the map has for
\* the task, then scheduleTask if the task is enabled.
UpdateEntries(st, t, status, schedule) ==
    IF status = TaskStatusEnabled
    THEN scheduleTask(RemoveEntries(st, t), t, status, schedule)
    ELSE RemoveEntries(st, t)

\* The loop of Start: scheduleTask for the tasks of `todo` in turn; an
\* error is logged.
RECURSIVE ScheduleAll(_, _)
ScheduleAll(todo, st) ==
    IF todo = {} THEN st
    ELSE LET t == CHOOSE x \in todo : TRUE
         IN ScheduleAll(todo \ {t},
                        scheduleTask(st, t, tasks[t].status, tasks[t].schedule))

\* Scheduler.Start
Start ==
    /\ pc["main"] = "init"
    /\ MuFree
    /\ ~running
    /\ LET enabled == {t \in TaskIDs : tasks[t].exists
                                        /\ tasks[t].status = TaskStatusEnabled}
           st == ScheduleAll(enabled, SchedState)
       IN /\ cronEntries' = {[e EXCEPT !.next = 1] : e \in st.entries}
          /\ lastEntryID' = st.last
          /\ entryMap' = st.map
    /\ cronRunning' = TRUE
    /\ running' = TRUE
    /\ pc' = [pc EXCEPT !["main"] = "serving"]
    /\ UNCHANGED <<storeVars, ctxCancelled, muWriter, loc, calls, env, sinkVars>>

\* A firing is executing a step of its pipeline: executeStep is about to be
\* called or has not returned.
ExecutingStep(p) ==
    /\ loc[p].kind = "schedule"
    /\ pc[p] \in {"step", "scrape", "cache_check", "cache_add",
                 "discord_sleep", "discord_send"}

\* The locals of a process once its context is done: a firing that is
\* executing a step remembers which.
Cancelled(p) ==
    IF ExecutingStep(p) /\ ~CtxDone(p)
    THEN [loc[p] EXCEPT !.cancelledAt = loc[p].i]
    ELSE loc[p]

\* Scheduler.Stop up to <-ctx.Done(): takes the write lock, cancels s.ctx,
\* stops the dispatcher and waits for the jobs in flight.
StopBegin ==
    /\ pc["main"] = "serving"
    /\ MuFree
    /\ running
    /\ muWriter' = "main"
    /\ ctxCancelled' = TRUE
    /\ cronRunning' = FALSE
    /\ pc' = [pc EXCEPT !["main"] = "stop_wait"]
    /\ loc' = [p \in DOMAIN loc |-> Cancelled(p)]
    /\ UNCHANGED <<storeVars, running, cronEntries, lastEntryID, entryMap,
                   calls, env, sinkVars>>

JobsInFlight == {p \in Workers : loc[p].kind = "schedule"}

\* Goroutines are anonymous: a new one takes the first free name.
FreeWorker(p) ==
    /\ pc[p] = "idle"
    /\ p = "w2" => pc["w1"] # "idle"

\* Scheduler.Stop from <-ctx.Done() on: every job has returned.
StopEnd ==
    /\ pc["main"] = "stop_wait"
    /\ JobsInFlight = {}
    /\ running' = FALSE
    /\ muWriter' = NoProc
    /\ pc' = [pc EXCEPT !["main"] = "stopped"]
    /\ UNCHANGED <<storeVars, ctxCancelled, cronRunning, cronEntries,
                   lastEntryID, entryMap, loc, calls, env, sinkVars>>

\* The dispatcher activates a live entry: it advances the entry's Next and
\* starts the job on a goroutine of its own.
Fire(p, e) ==
    /\ FreeWorker(p)
    /\ cronRunning
    /\ e \in cronEntries
    /\ calls < env.maxCalls
    /\ cronEntries' = (cronEntries \ {e}) \cup {[e EXCEPT !.next = e.next + 1]}
    /\ loc' = [loc EXCEPT ![p] = [IdleLoc EXCEPT !.kind = "schedule",
                                                  !.entry = e.task]]
    /\ pc' = [pc EXCEPT ![p] = "fc_find"]
    /\ calls' = calls + 1
    /\ UNCHANGED <<storeVars, running, ctxCancelled, cronRunning, lastEntryID,
                   entryMap, muWriter, env, sinkVars>>

\* The 30 minute deadline of a firing's context passes.
FiringTimeout(p) ==
    /\ loc[p].kind = "schedule"
    /\ ~loc[p].timedOut
    /\ loc' = [loc EXCEPT ![p] = [Cancelled(p) EXCEPT !.timedOut = TRUE]]
    /\ UNCHANGED <<storeVars, schedVars, pc, calls, env, sinkVars>>

\* A variant of SkipFiring that skips only a disabled task.
SkipFiringDisabledOnly(status) == status = TaskStatusDisabled

\* Firing callback: the two status tests on the task it re-read; the firing
\* returns when the task is running and when it is not enabled.
SkipFiring(status) ==
    \/ status = TaskStatusRunning
    \/ status # TaskStatusEnabled

\* Firing callback: FindByID and the status checks before runner.Run.
FcFind(p) ==
    /\ pc[p] = "fc_find"
    /\ LET t == loc[p].entry IN
       IF CtxDone(p) \/ ~tasks[t].exists
       THEN /\ pc' = [pc EXCEPT ![p] = "fc_remove"]
            /\ loc' = loc
       ELSE IF SkipFiring(tasks[t].status)
       THEN /\ pc' = [pc EXCEPT ![p] = "idle"]
            /\ loc' = [loc EXCEPT ![p] = IdleLoc]
       ELSE /\ pc' = [pc EXCEPT ![p] = "run_create"]
            /\ loc' = [loc EXCEPT ![p].task = t,
                                  ![p].pipeline = tasks[t].pipeline,
                                  ![p].readStatus = tasks[t].status]
    /\ UNCHANGED <<storeVars, schedVars, calls, env, sinkVars>>

\* Firing callback: s.RemoveTask(task.ID) and return.
FcRemove(p) ==
    /\ pc[p] = "fc_remove"
    /\ MuFree
    /\ LET st == RemoveEntries(SchedState, loc[p].entry) IN
       /\ cronEntries' = st.entries
       /\ entryMap' = st.map
    /\ pc' = [pc EXCEPT ![p] = "idle"]
    /\ loc' = [loc EXCEPT ![p] = IdleLoc]
    /\ UNCHANGED <<storeVars, running, ctxCancelled, cronRunning, lastEntryID,
                   muWriter, calls, env, sinkVars>>

\* Firing callback after runner.Run: under the read lock, persist the
\* entry's Next as next_run_at, and return.
FcNextRun(p) ==
    /\ pc[p] = "fc_next"
    /\ MuFree
    /\ LET t == loc[p].entry IN
       tasks' = IF entryMap[t] # 0 /\ EntryOf(entryMap[t]).next # 0
                   /\ ~CtxDone(p)
                THEN UpdateNextRun(t, EntryOf(entryMap[t]).next)
                ELSE tasks
    /\ pc' = [pc EXCEPT ![p] = "idle"]
    /\ loc' = [loc EXCEPT ![p] = IdleLoc]
    /\ UNCHANGED <<executions, cache, stepCalls, schedVars, calls, env, sinkVars>>

\* Scheduler.TriggerTask: FindByID, then runner.Run with what was read.
TriggerTask(p, t) ==
    /\ FreeWorker(p)
    /\ calls < env.maxCalls
    /\ IF ~tasks[t].exists
       THEN /\ UNCHANGED <<pc, loc, calls>>
       ELSE /\ pc' = [pc EXCEPT ![p] = "run_create"]
            /\ loc' = [loc EXCEPT ![p] = [IdleLoc EXCEPT
                          !.kind = "trigger", !.task = t,
                          !.pipeline = tasks[t].pipeline,
                          !.readStatus = tasks[t].status]]
            /\ calls' = calls + 1
    /\ UNCHANGED <<storeVars, schedVars, env, sinkVars>>

\* -------------------------------------------------- the task requests
\* The HTTP server is started once Scheduler.Start has returned, and shut
\* down after Scheduler.Stop: a request is served at any time from then on.
\* What a scheduler operation leaves behind: the entries, the entry map,
\* and, when scheduleTask installed an entry whose Next is set, next_run_at
\* written under the scheduler's context.
Install(st, t) ==
    /\ cronEntries' = st.entries
    /\ lastEntryID' = st.last
    /\ entryMap' = st.map
    /\ tasks' = IF /\ st.last # lastEntryID
                   /\ (CHOOSE e \in st.entries : e.id = st.last).next # 0
                   /\ ~ctxCancelled
                THEN UpdateNextRun(t, (CHOOSE e \in st.entries : e.id = st.last).next)
                ELSE tasks

\* Handler.CreateTask up to taskRepo.Create: the request has a name, a
\* schedule that is not empty and a valid pipeline; the row is inserted at
\* status enabled under an id the database makes, which no row had before.
CreateTask(h, t, schedule, pipeline) ==
    /\ pc[h] = "idle"
    /\ pc["main"] # "init"
    /\ calls < env.maxCalls
    /\ ~tasks[t].exists /\ ~tasks[t].deleted
    /\ schedule # <<>> /\ pipeline # <<>>
    /\ tasks' = [tasks EXCEPT ![t] =
                    [TaskRow(TaskStatusEnabled, pipeline)
                        EXCEPT !.schedule = schedule]]
    /\ loc' = [loc EXCEPT ![h] = [IdleLoc EXCEPT
                  !.kind = "create", !.task = t,
                  !.row = [status |-> TaskStatusEnabled,
                           schedule |-> schedule]]]
    /\ pc' = [pc EXCEPT ![h] = "add_task"]
    /\ calls' = calls + 1
    /\ UNCHANGED <<executions, cache, stepCalls, schedVars, env, sinkVars>>

\* scraper Validate: the config has the key source or the key sources.
\* keys is the set of the keys source, sources and category the config has.
ScraperValidate(step) ==
    IF "source" \notin step.keys /\ "sources" \notin step.keys
    THEN "scraper requires 'source' or 'sources' in config"
    ELSE ""

\* PipelineRunner.ValidatePipeline: the errors of the steps, in order.  The
\* modelled configs of the other step types pass their Validate.
RECURSIVE ValidatePipeline(_)
ValidatePipeline(pipeline) ==
    IF pipeline = <<>> THEN <<>>
    ELSE LET step == Head(pipeline)
             err == IF step.type = "scraper" THEN ScraperValidate(step) ELSE ""
         IN (IF err = "" THEN <<>> ELSE <<err>>)
            \o ValidatePipeline(Tail(pipeline))

\* Handler.CreateTask from the decoded request on: a pipeline that does not
\* validate is answered 400 with its first error and nothing is stored.
CreateRequest(h, t, schedule, pipeline) ==
    IF ValidatePipeline(pipeline) # <<>>
    THEN /\ pc[h] = "idle"
         /\ pc["main"] # "init"
         /\ calls < env.maxCalls
         /\ loc' = [loc EXCEPT ![h] = [IdleLoc EXCEPT
                       !.kind = "create", !.pipeline = pipeline,
                       !.err = ValidatePipeline(pipeline)[1]]]
         /\ calls' = calls + 1
         /\ UNCHANGED <<storeVars, schedVars, pc, env, sinkVars>>
    ELSE CreateTask(h, t, schedule, pipeline)

\* Scheduler.AddTask, called by Handler.CreateTask, which drops its error.
AddTask(h) ==
    /\ pc[h] = "add_task"
    /\ MuFree
    /\ Install(scheduleTask(SchedState, loc[h].task, loc[h].row.status,
                            loc[h].row.schedule), loc[h].task)
    /\ pc' = [pc EXCEPT ![h] = "idle"]
    /\ loc' = [loc EXCEPT ![h] = IdleLoc]
    /\ UNCHANGED <<executions, cache, stepCalls, running, ctxCancelled,
                   cronRunning, muWriter, calls, env, sinkVars>>

\* Handler.UpdateTask up to the FindByID of taskRepo.Update: the fields the
\* request carries replace those of the row read (a status of "" and a
\* schedule of <<>> stand for a field the request leaves out).  A request
\* for a task that has no row is answered 404 and changes nothing.
UpdateRead(h, t, req) ==
    /\ pc[h] = "idle"
    /\ pc["main"] # "init"
    /\ calls < env.maxCalls
    /\ tasks[t].exists
    /\ loc' = [loc EXCEPT ![h] = [IdleLoc EXCEPT
                  !.kind = "update", !.task = t,
                  !.row = [status |-> IF req.status # "" THEN req.status
                                      ELSE tasks[t].status,
                           schedule |-> IF req.schedule # <<>> THEN req.schedule
                                        ELSE tasks[t].schedule]]]
    /\ pc' = [pc EXCEPT ![h] = "update_write"]
    /\ calls' = calls + 1
    /\ UNCHANGED <<storeVars, schedVars, env, sinkVars>>

\* taskRepo.Update, the UPDATE ... RETURNING: it writes the status and the
\* schedule computed from the row read before; when the row is gone the
\* handler answers 500.
UpdateWrite(h) ==
    /\ pc[h] = "update_write"
    /\ LET t == loc[h].task IN
       IF tasks[t].exists
       THEN /\ tasks' = [tasks EXCEPT ![t].status = loc[h].row.status,
                                      ![t].schedule = loc[h].row.schedule]
            /\ pc' = [pc EXCEPT ![h] = "update_task"]
            /\ loc' = loc
       ELSE /\ tasks' = tasks
            /\ pc' = [pc EXCEPT ![h] = "idle"]
            /\ loc' = [loc EXCEPT ![h] = IdleLoc]
    /\ UNCHANGED <<executions, cache, stepCalls, schedVars, calls, env, sinkVars>>

\* Scheduler.UpdateTask, called by Handler.UpdateTask, which drops its
\* error.
UpdateTask(h) ==
    /\ pc[h] = "update_task"
    /\ MuFree
    /\ Install(UpdateEntries(SchedState, loc[h].task, loc[h].row.status,
                             loc[h].row.schedule), loc[h].task)
    /\ pc' = [pc EXCEPT ![h] = "idle"]
    /\ loc' = [loc EXCEPT ![h] = IdleLoc]
    /\ UNCHANGED <<executions, cache, stepCalls, running, ctxCancelled,
                   cronRunning, muWriter, calls, env, sinkVars>>

\* Handler.DeleteTask up to taskRepo.Delete: the row goes, and with it, by
\* ON DELETE CASCADE, the task's executions and cache rows.  A request for
\* a task that has no row is answered 404 and changes nothing.
DeleteTask(h, t) ==
    /\ pc[h] = "idle"
    /\ pc["main"] # "init"
    /\ calls < env.maxCalls
    /\ tasks[t].exists
    /\ tasks' = [tasks EXCEPT ![t] = [NoRow EXCEPT !.deleted = TRUE]]
    /\ executions' = [k \in DOMAIN executions |->
                        IF executions[k].task_id = t
                        THEN [executions[k] EXCEPT !.deleted = TRUE]
                        ELSE executions[k]]
    /\ cache' = {r \in cache : r.task_id # t}
    /\ loc' = [loc EXCEPT ![h] = [IdleLoc EXCEPT !.kind = "delete",
                                                  !.task = t]]
    /\ pc' = [pc EXCEPT ![h] = "remove_task"]
    /\ calls' = calls + 1
    /\ UNCHANGED <<stepCalls, schedVars, env, sinkVars>>

\* Scheduler.RemoveTask, called by Handler.DeleteTask.
RemoveTask(h) ==
    /\ pc[h] = "remove_task"
    /\ MuFree
    /\ LET st == RemoveEntries(SchedState, loc[h].task) IN
       /\ cronEntries' = st.entries
       /\ entryMap' = st.map
    /\ pc' = [pc EXCEPT ![h] = "idle"]
    /\ loc' = [loc EXCEPT ![h] = IdleLoc]
    /\ UNCHANGED <<storeVars, running, ctxCancelled, cronRunning, lastEntryID,
                   muWriter, calls, env, sinkVars>>

\* Scheduler.GetNextRun: the entry's Next, nil (0) when the map has no key
\* for the task or the entry's Next is the zero time.
GetNextRun(t) ==
    IF entryMap[t] # 0 /\ \E e \in cronEntries : e.id = entryMap[t]
    THEN EntryOf(entryMap[t]).next
    ELSE 0

\* Scheduler.GetScheduledTasks: the keys of the entry map.
GetScheduledTasks == {t \in TaskIDs : entryMap[t] # 0}

\* ------------------------------------------------------------- runner
\* Where Run returns to: the firing callback goes on to its next_run_at
\* update, the HTTP handler responds.
ReturnFrom(p) ==
    IF loc[p].kind = "schedule"
    THEN /\ pc' = [pc EXCEPT ![p] = "fc_next"]
         /\ loc' = [loc EXCEPT ![p] = [IdleLoc EXCEPT
                                          !.kind = "schedule",
                                          !.entry = loc[p].entry,
                                          !.timedOut = loc[p].timedOut,
                                          !.task = loc[p].task,
                                          !.execID = loc[p].execID,
                                          !.cancelledAt = loc[p].cancelledAt]]
    ELSE /\ pc' = [pc EXCEPT ![p] = "idle"]
         /\ loc' = [loc EXCEPT ![p] = IdleLoc]

TriggeredBy(p) == IF loc[p].kind = "schedule" THEN "schedule" ELSE "user-u1"

\* Run: execRepo.Create; on an error (the context is done, or the task row
\* the new row references is gone) Run returns (nil, err) at once.
RunCreate(p) ==
    /\ pc[p] = "run_create"
    /\ IF CtxDone(p) \/ ~tasks[loc[p].task].exists
       THEN /\ ReturnFrom(p)
            /\ UNCHANGED executions
       ELSE /\ executions' = Append(executions,
                                    NewExecution(loc[p].task, TriggeredBy(p)))
            /\ loc' = [loc EXCEPT ![p].execID = Len(executions) + 1,
                                  ![p].cache0 = cache]
            /\ pc' = [pc EXCEPT ![p] = "run_running"]
    /\ UNCHANGED <<tasks, cache, stepCalls, schedVars, calls, env, sinkVars>>

\* Run: taskRepo.UpdateStatus(running); an error is logged.
RunSetRunning(p) ==
    /\ pc[p] = "run_running"
    /\ tasks' = IF CtxDone(p) THEN tasks
                ELSE UpdateStatus(loc[p].task, TaskStatusRunning)
    /\ loc' = [loc EXCEPT ![p].i = 1]
    /\ pc' = [pc EXCEPT ![p] = IF loc[p].pipeline = <<>>
                               THEN "run_finish" ELSE "step"]
    /\ UNCHANGED <<executions, cache, stepCalls, schedVars, calls, env, sinkVars>>

\* --------------------------------------------------------- step executors
\* The step the process is at.
StepOf(l) == l.pipeline[l.i]

\* A variant of executePipeline that keeps the task_id of the stored config.
ConfigTaskIDKept(step, task) ==
    IF step.task_id # "" THEN step.task_id ELSE task

\* config["task_id"] as the executors read it: executePipeline assigns the
\* id of the task it runs before every step, over whatever the stored
\* config carries.
ConfigTaskID(step, task) == task

\* A variant of executeStep that hands every executor a nil input.
InvokeNilInput(l) ==
    stepCalls \cup {[exec |-> l.execID, task |-> l.task, step |-> l.i,
                     type |-> StepOf(l).type, input |-> NilResult]}

\* executeStep: the executor of the step's type is called with the current
\* result as its input.
Invoke(l) ==
    stepCalls \cup {[exec |-> l.execID, task |-> l.task, step |-> l.i,
                     type |-> StepOf(l).type, input |-> l.current]}

\* The invocations of the chat sink.
SinkCalls == {c \in stepCalls : c.type = "discord"}

\* scraper filterNewItems: the content that is hashed.
ScraperContent(item) ==
    IF item.url # "" THEN item.url ELSE item.id \o item.source

\* filter dedupeScrapedItems: the content that is hashed.
FilterContent(item) ==
    IF item.url # "" THEN item.url ELSE item.id \o item.source

\* rss filterNewItems: the content that is hashed; url stands for the Link
\* of a model.RSSItem.
RSSContent(item) ==
    IF item.url # "" THEN item.url ELSE item.id

\* filter dedupeRSSItems: the content that is hashed.
FilterRSSContent(item) ==
    IF item.url # "" THEN item.url ELSE item.id

\* Empty data: a nil result or nil data, an empty sequence of items, or the
\* empty string.
EmptyData(result) ==
    \/ result.kind = "nil"
    \/ result.kind = "scraped" /\ Len(result.items) = 0
    \/ result.kind = "string" /\ Len(result.text) = 0

\* A variant of SkipEmpty that tests only for nil.
SkipEmptyNilOnly(result) == result.kind = "nil"

\* filter.SkipEmpty
SkipEmpty(result) ==
    \/ result.kind = "nil"
    \/ result.kind = "scraped" /\ result.items = <<>>
    \/ result.kind = "string" /\ result.text = ""

\* filter Execute: items[:limit] when limit > 0 and len(items) > limit.
Truncate(items, limit) ==
    IF limit > 0 /\ Len(items) > limit THEN SubSeq(items, 1, limit) ELSE items

\* Whether a cache call made now fails: always under a done context, and
\* otherwise when the store may fail in this behaviour.
CacheFailure(p) ==
    IF CtxDone(p) THEN {TRUE}
    ELSE IF env.cacheFails THEN {TRUE, FALSE} ELSE {FALSE}

\* What source.Scrape can return: an error, or one of the world's feeds.
ScrapeOutcomes(p, name) ==
    IF name \notin env.registry \/ CtxDone(p)
    THEN {[err |-> TRUE, items |-> <<>>]}
    ELSE {[err |-> FALSE, items |-> f] : f \in env.feeds}
         \cup (IF env.scrapeFails THEN {[err |-> TRUE, items |-> <<>>]} ELSE {})

\* The end of one filterNewItems / dedupeScrapedItems call, l.newItems being
\* what it returns: the scraper appends them to allItems and goes to its next
\* source, or returns its result after the last (errors stands for the
\* errors in the result's metadata); the filter truncates to limit and
\* returns.
AfterDedupe(l) ==
    LET clean == [l EXCEPT !.pending = <<>>, !.newItems = <<>>,
                           !.newHashes = <<>>]
    IN IF StepOf(l).type = "scraper"
       THEN LET l1 == [clean EXCEPT !.allItems = l.allItems \o l.newItems,
                                    !.srcs = Tail(l.srcs)]
            IN IF l1.srcs = <<>>
               THEN [pc |-> "step_end",
                     loc |-> [l1 EXCEPT !.result = ScrapedResult(l1.allItems),
                                        !.allItems = <<>>]]
               ELSE [pc |-> "scrape", loc |-> l1]
       ELSE [pc |-> "step_end",
             loc |-> [clean EXCEPT !.result =
                         ScrapedResult(Truncate(l.newItems, StepOf(l).limit))]]

\* scraper Execute: one turn of the loop over the sources, up to the call of
\* filterNewItems.  A source that fails is recorded in errors and skipped;
\* the step itself never returns an error.
Scrape(p) ==
    /\ \/ pc[p] = "step" /\ StepOf(loc[p]).type = "scraper"
       \/ pc[p] = "scrape"
    /\ LET l0 == IF pc[p] = "step"
                 THEN [loc[p] EXCEPT !.srcs = StepOf(loc[p]).sources,
                                     !.allItems = <<>>, !.errors = <<>>]
                 ELSE loc[p]
       IN IF l0.srcs = <<>>
          THEN /\ pc' = [pc EXCEPT ![p] = "step_end"]
               /\ loc' = [loc EXCEPT ![p] =
                             [l0 EXCEPT !.result = ScrapedResult(<<>>)]]
          ELSE \E out \in ScrapeOutcomes(p, Head(l0.srcs)) :
                 LET l1 == IF out.err
                           THEN [l0 EXCEPT !.errors = Append(@, Head(l0.srcs))]
                           ELSE [l0 EXCEPT !.pending = out.items,
                                           !.fetched = @ \o out.items]
                     nxt == IF out.err \/ out.items = <<>>
                            THEN AfterDedupe(l1)
                            ELSE [pc |-> "cache_check", loc |-> l1]
                 IN /\ pc' = [pc EXCEPT ![p] = nxt.pc]
                    /\ loc' = [loc EXCEPT ![p] = nxt.loc]
    /\ stepCalls' = IF pc[p] = "step" THEN Invoke(loc[p]) ELSE stepCalls
    /\ UNCHANGED <<tasks, executions, cache, schedVars, calls, env, sinkVars>>

\* filter Execute up to the call of dedupeScrapedItems.  The modelled configs
\* set no include_keywords and no exclude_keywords, so filterScrapedItems
\* returns its input.
FilterExecute(p) ==
    /\ pc[p] = "step"
    /\ StepOf(loc[p]).type = "filter"
    /\ LET l == loc[p]
           step == StepOf(l)
           input == l.current
           nxt == IF input.kind # "scraped"
                  THEN [pc |-> "step_end", loc |-> [l EXCEPT !.result = input]]
                  ELSE IF step.deduplicate /\ input.items # <<>>
                  THEN [pc |-> "cache_check",
                        loc |-> [l EXCEPT !.pending = input.items]]
                  ELSE [pc |-> "step_end",
                        loc |-> [l EXCEPT !.result = ScrapedResult(
                                    Truncate(input.items, step.limit))]]
       IN /\ pc' = [pc EXCEPT ![p] = nxt.pc]
          /\ loc' = [loc EXCEPT ![p] = nxt.loc]
    /\ stepCalls' = Invoke(loc[p])
    /\ UNCHANGED <<tasks, executions, cache, schedVars, calls, env, sinkVars>>

\* One turn of the loop of filterNewItems (scraper) or dedupeScrapedItems
\* (filter): hash the item, ask ExistsForTask, keep or drop it.  The scraper
\* drops the item when the lookup fails, the filter keeps it.
CacheCheck(p) ==
    /\ pc[p] = "cache_check"
    /\ LET l == loc[p]
           scraper == StepOf(l).type = "scraper"
           item == Head(l.pending)
           hash == HashContent(IF scraper THEN ScraperContent(item)
                               ELSE FilterContent(item))
       IN \E failed \in CacheFailure(p) :
            LET exists == ~failed /\ ExistsForTask(
                              hash, ConfigTaskID(StepOf(l), l.task))
                drop == IF scraper THEN failed \/ exists ELSE exists
                l1 == [l EXCEPT !.lookupFailed =
                                    IF failed THEN @ \cup {item} ELSE @,
                                !.pending = Tail(l.pending),
                                !.newItems = IF drop THEN @ ELSE Append(@, item),
                                !.newHashes = IF drop THEN @ ELSE Append(@, hash)]
                nxt == IF l1.pending # <<>>
                       THEN [pc |-> "cache_check", loc |-> l1]
                       ELSE IF l1.newHashes # <<>>
                       THEN [pc |-> "cache_add", loc |-> l1]
                       ELSE AfterDedupe(l1)
            IN /\ pc' = [pc EXCEPT ![p] = nxt.pc]
               /\ loc' = [loc EXCEPT ![p] = nxt.loc]
    /\ UNCHANGED <<storeVars, schedVars, calls, env, sinkVars>>

\* The AddBatch call that ends filterNewItems / dedupeScrapedItems; its error
\* is dropped.
CacheAdd(p) ==
    /\ pc[p] = "cache_add"
    /\ LET l == loc[p]
           source == IF StepOf(l).type = "scraper" THEN "scraper" ELSE "filter"
           taskID == ConfigTaskID(StepOf(l), l.task)
           nxt == AfterDedupe(l)
       IN \E storeFailed \in CacheFailure(p) :
            \* the INSERT also fails when the task row it references is gone
            \E failAt \in (IF storeFailed \/ ~tasks[taskID].exists
                           THEN 1..(Len(l.newHashes) + 1) ELSE {0}) :
               /\ cache' = AddBatchTx(l.newHashes, source, taskID, failAt)
               /\ pc' = [pc EXCEPT ![p] = nxt.pc]
               /\ loc' = [loc EXCEPT ![p] =
                             [nxt.loc EXCEPT !.addFailed = @ \/ failAt # 0]]
    /\ UNCHANGED <<tasks, executions, stepCalls, schedVars, calls, env, sinkVars>>

\* ai Execute: the provider's completion, parsed as JSON when it parses and
\* kept as a string otherwise; a provider error fails the step.
AIExecute(p) ==
    /\ pc[p] = "step"
    /\ StepOf(loc[p]).type \in {"ai_processor", "ai"}
    /\ \E out \in (IF CtxDone(p) THEN {[err |-> "context canceled", text |-> ""]}
                   ELSE {[err |-> "", text |-> a] : a \in env.aiAnswers}
                        \cup {[err |-> e, text |-> ""] : e \in env.aiErrors}) :
         loc' = [loc EXCEPT ![p].err =
                     IF out.err = "" THEN ""
                     ELSE "AI processing failed: " \o out.err,
                 ![p].result =
                     IF out.err # "" THEN NilResult
                     ELSE IF out.text = "{}" THEN MapResult
                     ELSE StringResult(out.text)]
    /\ pc' = [pc EXCEPT ![p] = "step_end"]
    /\ stepCalls' = Invoke(loc[p])
    /\ UNCHANGED <<tasks, executions, cache, schedVars, calls, env, sinkVars>>

\* The zero time.Time of a lastSend that was never set.
NeverSent == -1

\* discord Execute: time.Since(e.lastSend) < e.rateLimit, read under e.mu.
RateLimited(last, t) == last # NeverSent /\ t - last < env.rateLimit

\* DiscordRepository.GetWebhookForTask as executeStep uses it: the URL the
\* store resolves for the task, "" when there is none or the lookup fails.
GetWebhookForTask(p) == IF CtxDone(p) THEN "" ELSE env.storeWebhook

\* executeStep, case "discord": when the step config has no webhook_url key
\* and the store resolves a URL that is not empty, the URL is put in the
\* config.
ResolveConfig(configured, stored) ==
    IF configured = NoWebhookKey /\ stored # "" THEN stored ELSE configured

\* discord Execute: config["webhook_url"] as a string, and the executor's
\* default webhook when that is empty.
WebhookURL(configured) ==
    IF configured \in {NoWebhookKey, ""} THEN env.webhook ELSE configured

NoWebhookError == "no Discord webhook URL configured"

\* discord Execute, with the webhook the runner resolved, up to the rate
\* limiter: input must not be nil and a webhook must be known; then, under
\* e.mu, the executor decides from lastSend whether to sleep before sending.
DiscordExecute(p) ==
    /\ pc[p] = "step"
    /\ StepOf(loc[p]).type = "discord"
    /\ LET l == loc[p]
           url == WebhookURL(ResolveConfig(StepOf(l).webhook_url,
                                           GetWebhookForTask(p)))
           err == IF l.current.kind = "nil"
                  THEN "discord executor requires input data"
                  ELSE IF url = ""
                  THEN NoWebhookError
                  ELSE ""
       IN IF err # ""
          THEN /\ loc' = [loc EXCEPT ![p].err = err, ![p].result = NilResult]
               /\ pc' = [pc EXCEPT ![p] = "step_end"]
          ELSE IF RateLimited(lastSend, now)
          THEN /\ loc' = [loc EXCEPT ![p].wake = lastSend + env.rateLimit,
                                     ![p].webhook = url]
               /\ pc' = [pc EXCEPT ![p] = "discord_sleep"]
          ELSE /\ loc' = [loc EXCEPT ![p].webhook = url]
               /\ pc' = [pc EXCEPT ![p] = "discord_send"]
    /\ stepCalls' = Invoke(loc[p])
    /\ UNCHANGED <<tasks, executions, cache, schedVars, calls, env, sinkVars>>

\* discord Execute: time.Sleep(e.rateLimit - elapsed) returns; the executor
\* goes on to send without looking at lastSend again.
DiscordSleep(p) ==
    /\ pc[p] = "discord_sleep"
    /\ now >= loc[p].wake
    /\ pc' = [pc EXCEPT ![p] = "discord_send"]
    /\ loc' = [loc EXCEPT ![p].wake = 0]
    /\ UNCHANGED <<storeVars, schedVars, calls, env, sinkVars>>

\* discord Execute: e.send, and on success e.lastSend = time.Now().  Under a
\* done context the request is not made.
DiscordSend(p) ==
    /\ pc[p] = "discord_send"
    /\ \E sendErr \in (IF CtxDone(p) THEN {"context canceled"}
                       ELSE {""} \cup env.sendErrors) :
         /\ loc' = [loc EXCEPT ![p].err =
                        IF sendErr = "" THEN ""
                        ELSE "failed to send Discord message: " \o sendErr,
                    ![p].result = IF sendErr = "" THEN MapResult
                                  ELSE NilResult]
         /\ lastSend' = IF sendErr = "" THEN now ELSE lastSend
         /\ sends' = IF CtxDone(p) THEN sends
                     ELSE sends \cup {[exec |-> loc[p].execID, at |-> now,
                                       ok |-> sendErr = "",
                                       url |-> loc[p].webhook]}
    /\ pc' = [pc EXCEPT ![p] = "step_end"]
    /\ UNCHANGED <<storeVars, schedVars, calls, env, now>>

\* Time passes.
Tick ==
    /\ now < MaxTime
    /\ now' = now + 1
    /\ UNCHANGED <<storeVars, schedVars, pc, loc, calls, env, lastSend, sends>>

\* ------------------------------------------------- runner, after a step
StepResult(type, status, error) ==
    [step_type |-> type, status |-> status, error |-> error]

\* A variant of StepError that prints the loop index, which counts from 0.
StepErrorZeroBased(i, type, cause) ==
    "step " \o ToStr(i - 1) \o " (" \o type \o ") failed: " \o cause

\* The error executePipeline returns for a failed step.
StepError(i, type, cause) ==
    "step " \o ToStr(i) \o " (" \o type \o ") failed: " \o cause

\* The errors of dynamic type filter.SkipPipelineError that the executors
\* return.  NewSkipPipelineError has no caller and no executor builds the
\* value otherwise, so there are none.
SkipPipelineErrors == {}

\* executePipeline after executeStep returned: a step that returned the
\* skip signal is appended as skipped and ends the run without an error and
\* without persisting; any other failed step is appended
\* and persisted and ends the run with an error; an empty result is
\* appended as completed and ends the run without persisting; any other
\* result is appended, persisted and handed to the next step.
StepEnd(p) ==
    /\ pc[p] = "step_end"
    /\ LET l == loc[p]
           type == StepOf(l).type
           failed == Append(l.stepResults, StepResult(type, "failed", l.err))
           skipped == Append(l.stepResults, StepResult(type, "skipped", l.err))
           done == Append(l.stepResults, StepResult(type, "completed", ""))
           clean == [l EXCEPT !.err = "", !.result = NilResult,
                              !.errors = <<>>,
                              !.lookupFailed = {}, !.addFailed = FALSE,
                              !.emptyAt = IF l.err = "" /\ EmptyData(l.result)
                                          THEN l.i ELSE @]
       IN IF l.err \in SkipPipelineErrors
          THEN /\ executions' = executions
               /\ loc' = [loc EXCEPT ![p] = [clean EXCEPT !.stepResults = skipped]]
               /\ pc' = [pc EXCEPT ![p] = "run_finish"]
          ELSE IF l.err # ""
          THEN /\ executions' = IF CtxDone(p) THEN executions
                                ELSE UpdateStepResults(l.execID, failed)
               /\ loc' = [loc EXCEPT ![p] =
                             [clean EXCEPT !.stepResults = failed,
                                           !.finalErr = StepError(l.i, type, l.err)]]
               /\ pc' = [pc EXCEPT ![p] = "run_finish"]
          ELSE IF SkipEmpty(l.result)
          THEN /\ executions' = executions
               /\ loc' = [loc EXCEPT ![p] = [clean EXCEPT !.stepResults = done]]
               /\ pc' = [pc EXCEPT ![p] = "run_finish"]
          ELSE /\ executions' = IF CtxDone(p) THEN executions
                                ELSE UpdateStepResults(l.execID, done)
               /\ loc' = [loc EXCEPT ![p] =
                             [clean EXCEPT !.stepResults = done,
                                           !.current = l.result,
                                           !.i = l.i + 1]]
               /\ pc' = [pc EXCEPT ![p] = IF l.i = Len(l.pipeline)
                                          THEN "run_finish" ELSE "step"]
    /\ UNCHANGED <<tasks, cache, stepCalls, schedVars, calls, env, sinkVars>>

\* Run: execRepo.Fail when executePipeline returned an error, else
\* execRepo.Complete; an error of either is logged.
RunFinish(p) ==
    /\ pc[p] = "run_finish"
    /\ LET l == loc[p] IN
       executions' = IF CtxDone(p) THEN executions
                     ELSE IF l.finalErr # ""
                     THEN Fail(l.execID, l.stepResults, l.finalErr)
                     ELSE Complete(l.execID, l.stepResults)
    /\ pc' = [pc EXCEPT ![p] = "run_enable"]
    /\ UNCHANGED <<tasks, cache, stepCalls, schedVars, loc, calls, env, sinkVars>>

\* Run: taskRepo.UpdateStatus(enabled); an error is logged.
RunEnable(p) ==
    /\ pc[p] = "run_enable"
    /\ tasks' = IF CtxDone(p) THEN tasks
                ELSE UpdateStatus(loc[p].task, TaskStatusEnabled)
    /\ pc' = [pc EXCEPT ![p] = "run_lastrun"]
    /\ UNCHANGED <<executions, cache, stepCalls, schedVars, loc, calls, env, sinkVars>>

\* Run: taskRepo.UpdateLastRunOnly(time.Now()); an error is logged.
RunLastRun(p) ==
    /\ pc[p] = "run_lastrun"
    /\ tasks' = IF CtxDone(p) THEN tasks
                ELSE UpdateLastRunOnly(loc[p].task, loc[p].execID)
    /\ pc' = [pc EXCEPT ![p] = "run_fetch"]
    /\ UNCHANGED <<executions, cache, stepCalls, schedVars, loc, calls, env, sinkVars>>

\* What Run returns from its last two statements: the execution that
\* FindByID read back (0 stands for nil, which a deleted row and the dropped
\* error of a failed read leave behind) and finalErr.
RunResult(p) ==
    [execution |-> IF CtxDone(p) \/ executions[loc[p].execID].deleted
                   THEN 0 ELSE loc[p].execID,
     err |-> loc[p].finalErr]

\* Run: execRepo.FindByID and return.
RunFetch(p) ==
    /\ pc[p] = "run_fetch"
    /\ ReturnFrom(p)
    /\ UNCHANGED <<storeVars, schedVars, calls, env, sinkVars>>

\* ------------------------------------------------------ specifications
InitScheduler ==
    /\ executions = <<>>
    /\ cache = {}
    /\ stepCalls = {}
    /\ running = FALSE
    /\ ctxCancelled = FALSE
    /\ cronRunning = FALSE
    /\ cronEntries = {}
    /\ lastEntryID = 0
    /\ entryMap = [t \in TaskIDs |-> 0]
    /\ muWriter = NoProc
    /\ pc = [p \in Procs |-> IF p = "main" THEN "init" ELSE "idle"]
    /\ loc = [p \in Workers \cup Handlers |-> IdleLoc]
    /\ calls = 0
    /\ now = 0
    /\ lastSend = NeverSent
    /\ sends = {}

\* The concurrent specification: one enabled task whose pipeline is the
\* scraper followed by the sink, with or without a deduplicating filter in
\* between; a source that returns the same two items at every scrape; two
\* goroutines, each a firing or a manual trigger; Start and Stop.
Init ==
    /\ InitScheduler
    /\ \E pl \in {<<ScraperStep, DiscordStep>>,
                  <<ScraperStep, DedupeStep, DiscordStep>>} :
         tasks = [t \in TaskIDs |->
                    IF t = "t1" THEN TaskRow(TaskStatusEnabled, pl)
                    ELSE NoRow]
    /\ env = [registry |-> {"X"}, feeds |-> {<<ItemA, ItemB>>},
              scrapeFails |-> FALSE, cacheFails |-> FALSE,
              aiAnswers |-> {"summary"}, aiErrors |-> {},
              sendErrors |-> {}, webhook |-> "W", storeWebhook |-> "", maxCalls |-> MaxCalls,
              rateLimit |-> 0]

RunStep(p) ==
    \/ RunCreate(p)
    \/ RunSetRunning(p)
    \/ Scrape(p)
    \/ FilterExecute(p)
    \/ CacheCheck(p)
    \/ CacheAdd(p)
    \/ DiscordExecute(p)
    \/ DiscordSend(p)
    \/ StepEnd(p)
    \/ RunFinish(p)
    \/ RunEnable(p)
    \/ RunLastRun(p)
    \/ RunFetch(p)

Next ==
    \/ Start
    \/ StopBegin
    \/ StopEnd
    \/ \E p \in Workers : \E e \in cronEntries : Fire(p, e)
    \/ \E p \in Workers : FcFind(p)
    \/ \E p \in Workers : FcNextRun(p)
    \/ \E p \in Workers : \E t \in TaskIDs : TriggerTask(p, t)
    \/ \E p \in Workers : RunStep(p)

Spec == Init /\ [][Next]_vars

\* The timeout specification: the firings of the one task, one at a time,
\* each under a context whose deadline may pass at any moment.
NextTimeout ==
    \/ Start
    \/ \E e \in cronEntries : Fire("w1", e)
    \/ FiringTimeout("w1")
    \/ FcFind("w1")
    \/ FcRemove("w1")
    \/ FcNextRun("w1")
    \/ RunStep("w1")

SpecTimeout == Init /\ [][NextTimeout]_vars

\* The scenario specification: runs one after the other, by the schedule or
\* by a manual trigger, of two tasks; the first task's pipeline is any of
\* the pipelines of the scenarios; the source returns any of three feeds or
\* fails, the provider answers or fails, the webhook accepts or refuses.
ScenarioPipelines ==
    {<<ScraperStep, DedupeStep, DiscordStep>>,
     <<ScraperStep, AIStep, DiscordStep>>,
     <<ScraperStep, DiscordStep>>,
     <<ScraperStep, FilterStep, DiscordStep>>,
     <<DiscordStep>>}

InitScenario ==
    /\ InitScheduler
    /\ \E pl \in ScenarioPipelines :
         tasks = [t \in TaskIDs |->
                    TaskRow(TaskStatusEnabled,
                            IF t = "t1" THEN pl
                            ELSE <<ScraperStep, DiscordStep>>)]
    /\ env = [registry |-> {"X"},
              feeds |-> {<<>>, <<ItemA, ItemB, ItemC>>,
                         <<ItemA, ItemB, ItemC, ItemD>>},
              scrapeFails |-> TRUE, cacheFails |-> FALSE,
              aiAnswers |-> {"", "summary", "{}"}, aiErrors |-> {"HTTP 500"},
              sendErrors |-> {"Discord API error 500"}, webhook |-> "W", storeWebhook |-> "",
              maxCalls |-> MaxRuns, rateLimit |-> 0]

NextScenario ==
    \/ Start
    \/ \E e \in cronEntries : Fire("w1", e)
    \/ FcFind("w1")
    \/ FcNextRun("w1")
    \/ \E t \in TaskIDs : TriggerTask("w1", t)
    \/ RunStep("w1")
    \/ AIExecute("w1")

SpecScenario == InitScenario /\ [][NextScenario]_vars

\* The cache failure specification: runs one after the other of one task
\* whose pipeline has the scraper, with or without a deduplicating filter,
\* before the sink, against a store whose cache calls may fail.
InitCache ==
    /\ InitScheduler
    /\ \E pl \in {<<ScraperStep, DiscordStep>>,
                  <<ScraperStep, DedupeStep, DiscordStep>>} :
         tasks = [t \in TaskIDs |->
                    IF t = "t1" THEN TaskRow(TaskStatusEnabled, pl)
                    ELSE NoRow]
    /\ env = [registry |-> {"X"}, feeds |-> {<<ItemA, ItemB>>},
              scrapeFails |-> FALSE, cacheFails |-> TRUE,
              aiAnswers |-> {"summary"}, aiErrors |-> {},
              sendErrors |-> {}, webhook |-> "W", storeWebhook |-> "", maxCalls |-> MaxRuns,
              rateLimit |-> 0]

NextCache ==
    \/ \E t \in TaskIDs : TriggerTask("w1", t)
    \/ RunStep("w1")

SpecCache == InitCache /\ [][NextCache]_vars

\* The same with the scheduling of the Go runtime: a goroutine that is inside
\* Run and can take a step takes it (every executor call and every store
\* call returns).
SpecCacheFair == SpecCache /\ WF_vars(RunStep("w1"))

\* The fields the cron inputs are made of: a star, numbers that are in the
\* bounds of some positions and not of others, and a number in no bounds.
FieldTokens == {<<"*">>, <<"0">>, <<"7">>, <<"6", "0">>}

Shortcuts == {Hourly, Daily, Weekly, Monthly}

FiveStars == JoinFields(<<<<"*">>, <<"*">>, <<"*">>, <<"*">>, <<"*">>>>)

\* The schedules a request may carry in the cron specification: the
\* shortcuts, every expression of five fields, expressions of four and of
\* six fields, fields separated by tabs and doubled blanks, and a word.
CronInputs ==
    Shortcuts
    \cup {JoinFields(f) : f \in [1..5 -> FieldTokens]}
    \cup {JoinFields(f) : f \in [1..4 -> {<<"*">>, <<"7">>}]}
    \cup {JoinFields(f) : f \in [1..6 -> {<<"*">>, <<"7">>}]}
    \cup {<<"*", "\t", "*", " ", " ", "*", " ", "*", "\t", "*">>,
          <<"@", "n", "e", "v", "e", "r">>,
          <<"h", "o", "u", "r", "l", "y">>}

\* The cron specification: the requests create tasks, all with one
\* schedule drawn from the cron inputs, before and after Stop.
InitCron ==
    /\ InitScheduler
    /\ tasks = [t \in TaskIDs |-> NoRow]
    /\ \E schedule \in CronInputs :
         env = [registry |-> {"X"}, feeds |-> {<<>>},
                scrapeFails |-> FALSE, cacheFails |-> FALSE,
                aiAnswers |-> {"summary"}, aiErrors |-> {},
                sendErrors |-> {}, webhook |-> "W", storeWebhook |-> "", maxCalls |-> MaxCalls,
                rateLimit |-> 0, schedules |-> {schedule}]

NextCron ==
    \/ Start
    \/ StopBegin
    \/ StopEnd
    \/ \E t \in TaskIDs, schedule \in env.schedules :
         CreateTask("h1", t, schedule, <<FilterStep>>)
    \/ AddTask("h1")

SpecCron == InitCron /\ [][NextCron]_vars

\* The requests of the operations specification: the schedules a create or
\* an update may carry, one of them malformed, and the updates.
OpsSchedules == {FiveStars, <<"h", "o", "u", "r", "l", "y">>}

UpdateRequests ==
    {[status |-> "", schedule |-> sch] : sch \in OpsSchedules}
    \cup {[status |-> st, schedule |-> <<>>] :
            st \in {TaskStatusEnabled, TaskStatusDisabled}}

\* The operations specification: one enabled task with a one step pipeline
\* and a free task id; two goroutines for the firings; the handler of the
\* create, update and delete requests; Start and Stop.
InitOps ==
    /\ InitScheduler
    /\ tasks = [t \in TaskIDs |->
                  IF t = "t1" THEN TaskRow(TaskStatusEnabled, <<FilterStep>>)
                  ELSE NoRow]
    /\ env = [registry |-> {"X"}, feeds |-> {<<>>},
              scrapeFails |-> FALSE, cacheFails |-> FALSE,
              aiAnswers |-> {"summary"}, aiErrors |-> {},
              sendErrors |-> {}, webhook |-> "W", storeWebhook |-> "", maxCalls |-> MaxOps,
              rateLimit |-> 0, schedules |-> OpsSchedules]

NextOps ==
    \/ Start
    \/ StopBegin
    \/ StopEnd
    \/ \E t \in TaskIDs, schedule \in env.schedules :
         CreateTask("h1", t, schedule, <<FilterStep>>)
    \/ AddTask("h1")
    \/ \E t \in TaskIDs, req \in UpdateRequests : UpdateRead("h1", t, req)
    \/ UpdateWrite("h1")
    \/ UpdateTask("h1")
    \/ \E t \in TaskIDs : DeleteTask("h1", t)
    \/ RemoveTask("h1")
    \/ \E p \in Workers :
         \/ \E e \in cronEntries : Fire(p, e)
         \/ FcFind(p)
         \/ FcRemove(p)
         \/ FcNextRun(p)
         \/ RunCreate(p)
         \/ RunSetRunning(p)
         \/ FilterExecute(p)
         \/ StepEnd(p)
         \/ RunFinish(p)
         \/ RunEnable(p)
         \/ RunLastRun(p)
         \/ RunFetch(p)

SpecOps == InitOps /\ [][NextOps]_vars

\* The rate limit specification: two tasks whose pipeline ends at the
\* sink, run by manual triggers on two goroutines that share the discord
\* executor, with a rate limit of RateLimit ticks of the clock.
RateLimit == 2

InitRate ==
    /\ InitScheduler
    /\ tasks = [t \in TaskIDs |->
                  TaskRow(TaskStatusEnabled, <<ScraperStep, DiscordStep>>)]
    /\ env = [registry |-> {"X"}, feeds |-> {<<ItemA>>},
              scrapeFails |-> FALSE, cacheFails |-> FALSE,
              aiAnswers |-> {"summary"}, aiErrors |-> {},
              sendErrors |-> {}, webhook |-> "W", storeWebhook |-> "", maxCalls |-> MaxRuns,
              rateLimit |-> RateLimit, schedules |-> {Hourly}]

NextRate ==
    \/ Tick
    \/ \E p \in Workers :
         \/ \E t \in TaskIDs : TriggerTask(p, t)
         \/ RunCreate(p)
         \/ RunSetRunning(p)
         \/ Scrape(p)
         \/ CacheCheck(p)
         \/ CacheAdd(p)
         \/ DiscordExecute(p)
         \/ DiscordSleep(p)
         \/ DiscordSend(p)
         \/ StepEnd(p)
         \/ RunFinish(p)
         \/ RunEnable(p)
         \/ RunLastRun(p)
         \/ RunFetch(p)

SpecRate == InitRate /\ [][NextRate]_vars

\* The webhook specification: one task whose pipeline is the scraper and
\* the sink; the sink's config has no webhook_url key, an empty one or a
\* URL, the store resolves a URL for the task or none, and the process has
\* a default webhook or none.
InitWebhook ==
    /\ InitScheduler
    /\ \E configured \in {NoWebhookKey, "", "C"} :
         tasks = [t \in TaskIDs |->
                    IF t = "t1"
                    THEN TaskRow(TaskStatusEnabled,
                           <<ScraperStep,
                             [DiscordStep EXCEPT !.webhook_url = configured]>>)
                    ELSE NoRow]
    /\ \E stored \in {"", "S"}, default \in {"", "D"} :
         env = [registry |-> {"X"}, feeds |-> {<<ItemA>>, <<ItemA, ItemB>>},
                scrapeFails |-> FALSE, cacheFails |-> FALSE,
                aiAnswers |-> {"summary"}, aiErrors |-> {},
                sendErrors |-> {}, webhook |-> default,
                storeWebhook |-> stored, maxCalls |-> MaxRuns,
                rateLimit |-> 0, schedules |-> {Hourly}]

NextWebhook ==
    \/ \E t \in TaskIDs : TriggerTask("w1", t)
    \/ RunCreate("w1")
    \/ RunSetRunning("w1")
    \/ Scrape("w1")
    \/ CacheCheck("w1")
    \/ CacheAdd("w1")
    \/ DiscordExecute("w1")
    \/ DiscordSend("w1")
    \/ StepEnd("w1")
    \/ RunFinish("w1")
    \/ RunEnable("w1")
    \/ RunLastRun("w1")
    \/ RunFetch("w1")

SpecWebhook == InitWebhook /\ [][NextWebhook]_vars

\* The two task specification: two enabled tasks whose pipeline is the
\* scraper and the sink, run by firings on one goroutine and by manual
\* triggers on the other; the source, the cache and the webhook may fail.
InitLocal ==
    /\ InitScheduler
    /\ tasks = [t \in TaskIDs |->
                  TaskRow(TaskStatusEnabled, <<ScraperStep, DiscordStep>>)]
    /\ env = [registry |-> {"X"}, feeds |-> {<<ItemA>>},
              scrapeFails |-> TRUE, cacheFails |-> TRUE,
              aiAnswers |-> {"summary"}, aiErrors |-> {},
              sendErrors |-> {"Discord API error 500"}, webhook |-> "W",
              storeWebhook |-> "", maxCalls |-> MaxCalls,
              rateLimit |-> 0, schedules |-> {Hourly}]

NextLocal ==
    \/ Start
    \/ \E e \in cronEntries : Fire("w1", e)
    \/ FcFind("w1")
    \/ FcNextRun("w1")
    \/ \E t \in TaskIDs : TriggerTask("w2", t)
    \/ \E p \in Workers :
         \/ RunCreate(p)
         \/ RunSetRunning(p)
         \/ Scrape(p)
         \/ CacheCheck(p)
         \/ CacheAdd(p)
         \/ DiscordExecute(p)
         \/ DiscordSend(p)
         \/ StepEnd(p)
         \/ RunFinish(p)
         \/ RunEnable(p)
         \/ RunLastRun(p)
         \/ RunFetch(p)

SpecLocal == InitLocal /\ [][NextLocal]_vars

\* The fingerprint specification: the four deduplicating functions, each
\* called on a list of one fetched item for one task.
FetchedItems ==
    {Item(id, url, source) : id \in {"1", "2"}, url \in {"", "a"},
                             source \in {"X", "Y"}}

InitFingerprint ==
    /\ InitScheduler
    /\ tasks = [t \in TaskIDs |->
                  TaskRow(TaskStatusEnabled, <<ScraperStep, DedupeStep>>)]
    /\ env = [registry |-> {"X", "Y"}, feeds |-> {<<it>> : it \in FetchedItems},
              scrapeFails |-> FALSE, cacheFails |-> FALSE,
              aiAnswers |-> {"summary"}, aiErrors |-> {},
              sendErrors |-> {}, webhook |-> "W", storeWebhook |-> "",
              maxCalls |-> MaxCalls, rateLimit |-> 0]

\* One call of a deduplicating function on the list <<item>>: the item is
\* hashed and looked up; if absent it is kept and its hash is added.
DedupeOne(p, by, source, content, item, t) ==
    /\ pc[p] = "idle"
    /\ calls < env.maxCalls
    /\ LET hash == HashContent(content)
           exists == ExistsForTask(hash, t)
       IN /\ cache' = IF exists THEN cache ELSE AddBatch(<<hash>>, source, t)
          /\ loc' = [loc EXCEPT ![p] =
                        [IdleLoc EXCEPT !.kind = by, !.task = t,
                                        !.pending = <<item>>,
                                        !.newItems = IF exists THEN <<>>
                                                     ELSE <<item>>,
                                        !.newHashes = <<hash>>]]
    /\ calls' = calls + 1
    /\ UNCHANGED <<tasks, executions, stepCalls, schedVars, pc, env, sinkVars>>

\* scraper filterNewItems, rss filterNewItems, filter dedupeScrapedItems
\* and filter dedupeRSSItems.
NextFingerprint ==
    \/ \E f \in env.feeds, t \in TaskIDs :
         DedupeOne("w1", "scraper.filterNewItems", "scraper",
                   ScraperContent(f[1]), f[1], t)
    \/ \E f \in env.feeds, t \in TaskIDs :
         DedupeOne("w1", "rss.filterNewItems", "rss",
                   RSSContent(f[1]), f[1], t)
    \/ \E f \in env.feeds, t \in TaskIDs :
         DedupeOne("w1", "filter.dedupeScrapedItems", "filter",
                   FilterContent(f[1]), f[1], t)
    \/ \E f \in env.feeds, t \in TaskIDs :
         DedupeOne("w1", "filter.dedupeRSSItems", "filter",
                   FilterRSSContent(f[1]), f[1], t)

SpecFingerprint == InitFingerprint /\ [][NextFingerprint]_vars

\* The limit specification: the deduplicating filter has a limit of one
\* item, the source returns two, and the cache may fail, so that the
\* scraper's own AddBatch may have recorded nothing when the filter runs.
InitLimit ==
    /\ InitScheduler
    /\ tasks = [t \in TaskIDs |->
                  IF t = "t1"
                  THEN TaskRow(TaskStatusEnabled,
                               <<ScraperStep, Step("filter", <<>>, TRUE, 1),
                                 DiscordStep>>)
                  ELSE NoRow]
    /\ env = [registry |-> {"X"}, feeds |-> {<<ItemA, ItemB>>},
              scrapeFails |-> FALSE, cacheFails |-> TRUE,
              aiAnswers |-> {"summary"}, aiErrors |-> {},
              sendErrors |-> {}, webhook |-> "W", storeWebhook |-> "",
              maxCalls |-> MaxRuns, rateLimit |-> 0]

SpecLimit == InitLimit /\ [][NextCache]_vars

\* The isolation specification: two tasks run one after the other; the
\* stored configs of the first task's scraper and filter carry a task_id
\* key: none, the task's own id, or the id of the other task.
InitIsolation ==
    /\ InitScheduler
    /\ \E cfg \in {""} \cup TaskIDs :
         tasks = [t \in TaskIDs |->
                    IF t = "t1"
                    THEN TaskRow(TaskStatusEnabled,
                                 <<[ScraperStep EXCEPT !.task_id = cfg],
                                   [DedupeStep EXCEPT !.task_id = cfg],
                                   DiscordStep>>)
                    ELSE TaskRow(TaskStatusEnabled,
                                 <<ScraperStep, DiscordStep>>)]
    /\ env = [registry |-> {"X"}, feeds |-> {<<ItemA, ItemB>>},
              scrapeFails |-> FALSE, cacheFails |-> TRUE,
              aiAnswers |-> {"summary"}, aiErrors |-> {},
              sendErrors |-> {}, webhook |-> "W", storeWebhook |-> "",
              maxCalls |-> MaxRuns, rateLimit |-> 0]

SpecIsolation == InitIsolation /\ [][NextCache]_vars

\* The two handler specification: net/http serves every request on its own
\* goroutine, so a create request and update and delete requests for the
\* same task may overlap.  One enabled task and a free task id.
InitHandlers ==
    /\ InitScheduler
    /\ tasks = [t \in TaskIDs |->
                  IF t = "t1" THEN TaskRow(TaskStatusEnabled, <<FilterStep>>)
                  ELSE NoRow]
    /\ env = [registry |-> {"X"}, feeds |-> {<<>>},
              scrapeFails |-> FALSE, cacheFails |-> FALSE,
              aiAnswers |-> {"summary"}, aiErrors |-> {},
              sendErrors |-> {}, webhook |-> "W", storeWebhook |-> "",
              maxCalls |-> MaxOps, rateLimit |-> 0, schedules |-> {Hourly}]

NextHandlers ==
    \/ Start
    \/ \E t \in TaskIDs : CreateTask("h1", t, Hourly, <<FilterStep>>)
    \/ AddTask("h1")
    \/ \E t \in TaskIDs, req \in UpdateRequests : UpdateRead("h2", t, req)
    \/ UpdateWrite("h2")
    \/ UpdateTask("h2")
    \/ \E t \in TaskIDs : DeleteTask("h2", t)
    \/ RemoveTask("h2")

SpecHandlers == InitHandlers /\ [][NextHandlers]_vars

\* The validation specification: create requests whose pipeline is one
\* scraper step with any of the keys source, sources and category.
ScraperConfigs ==
    {[ScraperStep EXCEPT !.keys = k] :
        k \in SUBSET {"source", "sources", "category"}}

InitValidate ==
    /\ InitScheduler
    /\ tasks = [t \in TaskIDs |-> NoRow]
    /\ env = [registry |-> {"X"}, feeds |-> {<<ItemA>>},
              scrapeFails |-> FALSE, cacheFails |-> FALSE,
              aiAnswers |-> {"summary"}, aiErrors |-> {},
              sendErrors |-> {}, webhook |-> "W", storeWebhook |-> "",
              maxCalls |-> MaxOps, rateLimit |-> 0, schedules |-> {Hourly}]

NextValidate ==
    \/ Start
    \/ \E t \in TaskIDs, step \in ScraperConfigs :
         CreateRequest("h1", t, Hourly, <<step>>)
    \/ AddTask("h1")

SpecValidate == InitValidate /\ [][NextValidate]_vars

\* ---------------------------------------------------------- properties
\* The fingerprint of an item: the hash the ingestion step stores for it.
Fingerprint(item) == HashContent(ScraperContent(item))

Fingerprints(result) == {Fingerprint(it) : it \in SeqToSet(result.items)}

\* The process is inside PipelineRunner.Run.
InRun(p) ==
    pc[p] \in {"run_create", "run_running", "step", "scrape", "cache_check",
               "cache_add", "discord_sleep", "discord_send", "step_end",
               "run_finish", "run_enable",
               "run_lastrun", "run_fetch"}

\* The process is inside Run, after the call that writes the terminal status.
RunEnded(p) == pc[p] \in {"run_enable", "run_lastrun", "run_fetch"}

\* The invocations made on behalf of one execution.
CallsOf(id) == {c \in stepCalls : c.exec = id}

AllCompleted(results) ==
    \A j \in 1..Len(results) : results[j].status = "completed"

\* C1: at-most-once delivery per task.  For every task and every item
\* fingerprint, under any interleaving of scheduled firings and manual
\* triggers, at most one invocation of the chat sink has in its input an
\* item with that fingerprint.
C1_AtMostOnceDelivery ==
    \A c1, c2 \in SinkCalls :
        (c1.task = c2.task
         /\ Fingerprints(c1.input) \cap Fingerprints(c2.input) # {})
        => c1 = c2

\* C2: strict serialization per task.  Two goroutines are never inside the
\* runner for the same task at the same time, each with an execution record
\* in status running.
C2_StrictSerialization ==
    \A p, q \in Workers :
        (p # q /\ InRun(p) /\ InRun(q) /\ loc[p].task = loc[q].task
         /\ loc[p].execID # 0 /\ loc[q].execID # 0)
        => ~(executions[loc[p].execID].status = ExecutionStatusRunning
             /\ executions[loc[q].execID].status = ExecutionStatusRunning)

\* C3: a manual trigger is subject to the re-entrancy check.  A trigger that
\* read the task at status running does not invoke the runner and creates no
\* execution record.
C3_TriggerReentrancyCheck ==
    \A p \in Workers :
        (loc[p].kind = "trigger" /\ loc[p].readStatus = TaskStatusRunning)
        => (~InRun(p) /\ loc[p].execID = 0)

\* C4: Stop always returns.  There is no state in which Stop, holding the
\* scheduler's lock, waits for a firing callback to return while that
\* callback waits for the scheduler's lock.
C4_StopReturns ==
    ~(/\ pc["main"] = "stop_wait"
      /\ muWriter = "main"
      /\ \E p \in JobsInFlight : pc[p] \in {"fc_next", "fc_remove"})

\* C5: cancellation ends the execution at failed.  When the context of a
\* firing is cancelled while step k+1 is executing after k completed steps,
\* then once Run has returned the execution record has status failed and
\* its step results are k completed entries followed by one failed entry.
C5_CancelledRunFails ==
    \A p \in Workers :
        (pc[p] = "fc_next" /\ loc[p].cancelledAt # 0)
        => LET E == executions[loc[p].execID]
               k == loc[p].cancelledAt - 1
           IN /\ E.status = ExecutionStatusFailed
              /\ Len(E.step_results) = k + 1
              /\ AllCompleted(SubSeq(E.step_results, 1, k))
              /\ E.step_results[k + 1].status = "failed"

\* C6: early exit means no empty notification.  In any run, once a step has
\* returned empty data, no later step of that run is invoked, the run has no
\* error, the execution is never failed, and when the run has written its
\* terminal status that status is completed with no error.
C6_EarlyExit ==
    \A p \in Workers :
        loc[p].emptyAt # 0
        => LET E == executions[loc[p].execID]
           IN /\ \A c \in CallsOf(loc[p].execID) : c.step <= loc[p].emptyAt
              /\ loc[p].finalErr = ""
              /\ E.status # ExecutionStatusFailed
              /\ RunEnded(p) => (E.status = ExecutionStatusCompleted
                                 /\ E.error = "")

\* A run whose second step, the AI step, returned the empty string before
\* the chat sink, and that has written its terminal status.
C6_Witness ==
    \E p \in Workers :
        /\ RunEnded(p)
        /\ loc[p].emptyAt = 2
        /\ loc[p].pipeline = <<ScraperStep, AIStep, DiscordStep>>

\* C7: journal monotonicity.  In every step of the system, the step results
\* of every execution are extended (what was persisted stays a prefix), the
\* status of an execution changes only from running to completed or failed,
\* hence at most once, and an execution that is terminal is not written
\* again.  (That a run does write a terminal status is the subject of C5.)
C7_JournalMonotone ==
    [][\A id \in 1..Len(executions) :
         /\ id <= Len(executions')
         /\ IsPrefix(executions[id].step_results,
                     executions'[id].step_results)
         /\ executions'[id].status # executions[id].status
            => (/\ executions[id].status = ExecutionStatusRunning
                /\ executions'[id].status \in {ExecutionStatusCompleted,
                                               ExecutionStatusFailed})
         /\ executions[id].status # ExecutionStatusRunning
            => executions'[id] = executions[id]]_vars

\* An execution that went through two persisted step results and is
\* completed, while another execution of the task exists.
C7_Witness ==
    \E id \in 1..Len(executions) :
        /\ executions[id].status = ExecutionStatusCompleted
        /\ Len(executions[id].step_results) = 2
        /\ Len(executions) = 2

\* C8: scenario S1.  A run of the pipeline scraper, filter with
\* deduplicate, discord that began with no cache row for the task, whose
\* source returned the items a, b, c and none of whose steps failed, ends
\* completed with three cache rows for the task, three step results all
\* completed, and exactly one invocation of the chat sink, with the three
\* items.
C8_ScenarioS1 ==
    \A p \in Workers :
        (/\ RunEnded(p)
         /\ loc[p].pipeline = <<ScraperStep, DedupeStep, DiscordStep>>
         /\ {r \in loc[p].cache0 : r.task_id = loc[p].task} = {}
         /\ loc[p].fetched = <<ItemA, ItemB, ItemC>>
         /\ loc[p].finalErr = "")
        => LET E == executions[loc[p].execID]
               sink == {c \in SinkCalls : c.exec = loc[p].execID}
           IN /\ E.status = ExecutionStatusCompleted
              /\ Cardinality({r \in cache : r.task_id = loc[p].task}) = 3
              /\ Len(E.step_results) = 3
              /\ AllCompleted(E.step_results)
              /\ Cardinality(sink) = 1
              /\ \A c \in sink : c.input.items = <<ItemA, ItemB, ItemC>>

\* C9: scenario S2.  A run of a pipeline that begins with the scraper, in
\* which every item the source returned had its fingerprint in the cache for
\* the task when the run began: the scraper returned empty data, no step
\* after it and no chat sink was invoked, the cache is what it was, no step
\* result is failed and the execution is completed.
C9_ScenarioS2 ==
    \A p \in Workers :
        (/\ RunEnded(p)
         /\ loc[p].pipeline[1].type = "scraper"
         /\ \A it \in SeqToSet(loc[p].fetched) :
               \E r \in loc[p].cache0 : /\ r.content_hash = Fingerprint(it)
                                        /\ r.task_id = loc[p].task)
        => LET E == executions[loc[p].execID]
           IN /\ loc[p].emptyAt = 1
              /\ \A c \in CallsOf(loc[p].execID) : c.step = 1
              /\ cache = loc[p].cache0
              /\ Len(E.step_results) <= 2
              /\ AllCompleted(E.step_results)
              /\ E.status = ExecutionStatusCompleted

\* A second run of a task whose source returned the three items that the
\* first run stored.
C9_Witness ==
    \E p \in Workers :
        /\ RunEnded(p)
        /\ loc[p].fetched = <<ItemA, ItemB, ItemC>>
        /\ Cardinality({r \in loc[p].cache0 : r.task_id = loc[p].task}) = 3
        /\ loc[p].pipeline = <<ScraperStep, DedupeStep, DiscordStep>>

\* C10: step failure mid-pipeline.  When step i of type t has returned an
\* error after i-1 completed steps, the runner persists i-1 completed
\* entries followed by one failed entry carrying the error and returns the
\* error "step i (t) failed: <cause>"; Run then writes status failed with
\* that error; no step is invoked for an execution that has a failed step
\* result; and no cache row is ever removed.
C10_StepFailure ==
    [][/\ \A p \in Workers :
            /\ (pc[p] = "step_end" /\ loc[p].err # "" /\ pc'[p] # "step_end")
               => LET i == loc[p].i
                      t == loc[p].pipeline[i].type
                      R == executions'[loc[p].execID].step_results
                  IN /\ pc'[p] = "run_finish"
                     /\ Len(R) = i
                     /\ AllCompleted(SubSeq(R, 1, i - 1))
                     /\ R[i].status = "failed"
                     /\ R[i].error = loc[p].err
                     /\ loc'[p].finalErr = "step " \o ToStr(i) \o " (" \o t
                                           \o ") failed: " \o loc[p].err
            /\ (pc[p] = "run_finish" /\ loc[p].finalErr # ""
                /\ pc'[p] # "run_finish")
               => LET E == executions[loc[p].execID]
                      F == executions'[loc[p].execID]
                  IN /\ F.status = ExecutionStatusFailed
                     /\ F.error = loc[p].finalErr
                     /\ F.step_results = E.step_results
       /\ \A c \in stepCalls' \ stepCalls :
            \A j \in 1..Len(executions[c.exec].step_results) :
                executions[c.exec].step_results[j].status # "failed"
       /\ cache \subseteq cache']_vars

\* An execution failed at its second step, the AI step, with the rows of
\* the scraped items in the cache.
C10_Witness ==
    \E id \in 1..Len(executions) :
        /\ executions[id].status = ExecutionStatusFailed
        /\ executions[id].error =
              "step 2 (ai_processor) failed: AI processing failed: HTTP 500"
        /\ Len(executions[id].step_results) = 2
        /\ Cardinality({r \in cache : r.task_id = executions[id].task_id}) >= 3

\* C11: the task is re-enabled when Run returns.  When Run has returned to a
\* firing and no other goroutine is inside the runner for the task, the
\* task's status is enabled and its last_run_at has been stamped.
C11_ReenabledOnReturn ==
    \A p \in Workers :
        (/\ pc[p] = "fc_next"
         /\ loc[p].execID # 0
         /\ \A q \in Workers \ {p} : ~(InRun(q) /\ loc[q].task = loc[p].task))
        => /\ tasks[loc[p].task].status = TaskStatusEnabled
           /\ tasks[loc[p].task].last_run_at # 0

\* C12: Run always returns a non-null execution and no error.  In every
\* state in which Run is at its return, the execution it is about to return
\* is not nil and the error it is about to return is nil.
C12_RunReturnsExecution ==
    \A p \in Workers :
        pc[p] = "run_fetch"
        => /\ RunResult(p).execution # 0
           /\ RunResult(p).err = ""

\* C16: AddBatch is idempotent on (content_hash, task_id).  After every step
\* the cache holds at most one row per (content_hash, task_id); and an
\* AddBatch that reaches the store (its context is not done) with hashes
\* that are all present for the task does not fail and leaves the cache as
\* it was.
C16_AddBatchIdempotent ==
    [][/\ \A r1, r2 \in cache' :
            (r1.content_hash = r2.content_hash /\ r1.task_id = r2.task_id)
            => r1 = r2
       /\ \A p \in Workers :
            (/\ pc[p] = "cache_add"
             /\ pc'[p] # "cache_add"
             /\ ~CtxDone(p)
             /\ \A h \in SeqToSet(loc[p].newHashes) :
                   ExistsForTask(h, loc[p].task))
            => (cache' = cache /\ ~loc'[p].addFailed)]_vars

\* Two runs of one task have both taken the same item through the scraper's
\* check and AddBatch, and the cache holds one row for it.
C16_Witness ==
    \E p, q \in Workers :
        /\ p # q
        /\ pc[p] = "step" /\ pc[q] = "step"
        /\ loc[p].i = 2 /\ loc[q].i = 2
        /\ loc[p].task = loc[q].task
        /\ \E it \in SeqToSet(loc[p].current.items) :
              /\ it \in SeqToSet(loc[q].current.items)
              /\ Cardinality({r \in cache :
                                 /\ r.content_hash = Fingerprint(it)
                                 /\ r.task_id = loc[p].task}) = 1

\* C14: delivered implies recorded.  Every item in the input of an
\* invocation of the chat sink has its fingerprint in the cache for the
\* task, also when a cache write failed.
C14_DeliveredImpliesRecorded ==
    \A c \in SinkCalls :
        \A it \in SeqToSet(c.input.items) :
            \E r \in cache : /\ r.content_hash = Fingerprint(it)
                             /\ r.task_id = c.task

\* C15: cache failure mode.  When a scraper or filter step returns, every
\* item whose cache lookup failed during the step is among the items the
\* step returns, and a step whose AddBatch failed returns without error.
C15_CacheFailureMode ==
    \A p \in Workers :
        (pc[p] = "step_end" /\ StepOf(loc[p]).type \in {"scraper", "filter"})
        => /\ \A it \in loc[p].lookupFailed :
                 it \in SeqToSet(loc[p].result.items)
           /\ loc[p].addFailed => loc[p].err = ""

\* C13: a scheduled firing invokes the runner only if the task it re-read
\* has status enabled; when the status it re-read is running or disabled
\* the firing returns, no execution record is created and neither the task
\* rows nor the entry map change.
C13_FiringSkips ==
    [][\A p \in Workers :
         (pc[p] = "fc_find" /\ pc'[p] # "fc_find")
         => LET t == loc[p].entry IN
            /\ pc'[p] = "run_create"
                 => tasks[t].exists /\ tasks[t].status = TaskStatusEnabled
            /\ (/\ tasks[t].exists /\ ~CtxDone(p)
                /\ tasks[t].status \in {TaskStatusRunning, TaskStatusDisabled})
                 => /\ pc'[p] = "idle"
                    /\ executions' = executions
                    /\ tasks' = tasks
                    /\ entryMap' = entryMap]_vars

\* A firing has reached its status test while another goroutine runs the
\* task, whose row is at status running.
C13_Witness ==
    \E p, q \in Workers :
        /\ p # q
        /\ pc[p] = "fc_find" /\ ~CtxDone(p)
        /\ InRun(q) /\ loc[q].task = loc[p].entry
        /\ tasks[loc[p].entry].exists
        /\ tasks[loc[p].entry].status = TaskStatusRunning

\* The expressions of five fields that parse as standard cron: minute,
\* hour, day of month, month, day of week, each within its bounds.
ValidFive ==
    {sch \in CronInputs :
        LET f == splitCronParts(sch)
        IN Len(f) = 5 /\ \A k \in 1..5 : FieldParses(f[k], k + 1)}

\* The malformed expressions among the cron inputs.
Malformed == {sch \in CronInputs \ (Shortcuts \cup ValidFive) : ~CronParses(sch)}

\* The entries the dispatcher has for a task.
EntriesOf(t) == {e \in cronEntries : e.task = t}

C18_UpdateAtomic ==
    [][\A h \in Handlers :
         (pc[h] = "update_task" /\ pc'[h] = "idle")
         => LET t == loc[h].task
                sch == loc[h].row.schedule
            IN /\ \A e \in cronEntries' : e.task = t => e.id # entryMap[t]
               /\ IF loc[h].row.status = TaskStatusEnabled
                  THEN /\ Cardinality({e \in cronEntries' : e.task = t}) = 1
                       /\ \A e \in cronEntries' :
                            e.task = t => /\ e.id = entryMap'[t]
                                          /\ e.spec = Normalize(sch)
                  ELSE /\ {e \in cronEntries' : e.task = t} = {}
                       /\ entryMap'[t] = 0]_vars

C20_RateLimit ==
    \A s1, s2 \in sends :
        (s1 # s2 /\ s1.ok /\ s2.ok /\ s1.at <= s2.at)
        => s2.at - s1.at >= env.rateLimit

\* C21: the URL the sink sends to is the step config's webhook_url if that
\* is not empty, otherwise the URL the store resolves for the task if that
\* is not empty, otherwise the default; the step fails for want of a
\* webhook only when all three are empty.
C21_WebhookResolution ==
    \A p \in Workers :
        LET configured == StepOf(loc[p]).webhook_url
            expected == IF configured \notin {NoWebhookKey, ""} THEN configured
                        ELSE IF env.storeWebhook # "" THEN env.storeWebhook
                        ELSE env.webhook
        IN /\ pc[p] = "discord_send" => loc[p].webhook = expected
           /\ (pc[p] = "step_end" /\ loc[p].err = NoWebhookError)
                => expected = ""

\* C22: a step of a run of task T, whatever the outcome of the run, changes
\* no task row but T's, no execution record but the one the run created,
\* no cache row but rows of T, and leaves the scheduler's running flag, its
\* entry map and the dispatcher's entries as they are.
C22_RunIsLocal ==
    [][\A p \in Workers :
         (InRun(p) /\ (pc'[p] # pc[p] \/ loc'[p] # loc[p]))
         => LET T == loc[p].task IN
            /\ \A t \in TaskIDs \ {T} : tasks'[t] = tasks[t]
            /\ Len(executions') >= Len(executions)
            /\ \A k \in DOMAIN executions :
                 k # loc[p].execID => executions'[k] = executions[k]
            /\ \A k \in DOMAIN executions' \ DOMAIN executions :
                 /\ pc[p] = "run_create"
                 /\ executions'[k].task_id = T
            /\ \A r \in (cache' \ cache) \cup (cache \ cache') : r.task_id = T
            /\ running' = running
            /\ entryMap' = entryMap
            /\ cronEntries' = cronEntries]_vars

\* A run of one task has failed at a step while a run of the other task is
\* in flight, its execution at status running.
C22_Witness ==
    \E p, q \in Workers :
        /\ InRun(p) /\ InRun(q)
        /\ loc[p].task # loc[q].task
        /\ loc[p].finalErr # "" /\ RunEnded(p)
        /\ loc[q].execID # 0
        /\ executions[loc[q].execID].status = ExecutionStatusRunning
        /\ tasks[loc[q].task].status = TaskStatusRunning

\* C23: every execution record at status completed or failed has
\* finished_at and duration_ms set; its step_results hold at most one
\* failed entry, which is then the last one, and never more entries than
\* the task's pipeline has steps.
C23_ExecutionRecord ==
    \A k \in DOMAIN executions :
        LET e == executions[k]
            sr == e.step_results
        IN /\ e.status \in {ExecutionStatusCompleted, ExecutionStatusFailed}
              => e.finished
           /\ \A j \in 1..Len(sr) : sr[j].status = "failed" => j = Len(sr)
           /\ Len(sr) <= Len(tasks[e.task_id].pipeline)

\* One execution failed at its last step after two completed steps, and
\* another one completed.
C23_Witness ==
    \E k, m \in DOMAIN executions :
        /\ executions[k].status = ExecutionStatusFailed
        /\ executions[k].finished
        /\ Len(executions[k].step_results) = 3
        /\ executions[k].step_results[3].status = "failed"
        /\ executions[m].status = ExecutionStatusCompleted
        /\ executions[m].finished

\* C25: within one execution the steps are invoked in declared order, one at
\* a time.  The executor of step i is invoked once, after the executors of
\* steps 1..i-1, when each of these is recorded as completed; the runner
\* goes on to a next step only with a result that is not empty, and the
\* input of step i is that result of step i-1, nil for the first step.
C25_DeclaredOrder ==
    [][\A p \in Workers :
         LET l == loc[p]
             i == l.i
         IN /\ (pc[p] = "step" /\ (pc'[p] # pc[p] \/ loc'[p] # l))
               => /\ stepCalls' = stepCalls \cup
                        {[exec |-> l.execID, task |-> l.task, step |-> i,
                          type |-> l.pipeline[i].type, input |-> l.current]}
                  /\ Len(l.stepResults) = i - 1
                  /\ AllCompleted(l.stepResults)
                  /\ i = 1 => l.current = NilResult
                  /\ \A j \in 1..(i - 1) :
                       \E c \in CallsOf(l.execID) :
                           c.step = j /\ c.type = l.pipeline[j].type
                  /\ \A c \in CallsOf(l.execID) : c.step < i
            /\ (pc[p] = "step_end" /\ pc'[p] = "step")
               => /\ l.err = ""
                  /\ ~EmptyData(l.result)
                  /\ loc'[p].current = l.result
                  /\ loc'[p].i = i + 1
                  /\ loc'[p].pipeline = l.pipeline
            /\ (pc[p] \in {"step", "scrape", "cache_check", "cache_add",
                           "discord_sleep", "discord_send"})
               => /\ loc'[p].current = l.current
                  /\ loc'[p].i = i
                  /\ loc'[p].stepResults = l.stepResults
            /\ (\A q \in Workers :
                  pc[q] # "step" \/ (pc'[q] = pc[q] /\ loc'[q] = loc[q]))
               => stepCalls' = stepCalls]_vars

\* The third step of a pipeline has been invoked, with the result of the
\* second step, which differs from the result of the first.
C25_Witness ==
    \E c3, c2 \in stepCalls :
        /\ c3.exec = c2.exec
        /\ c3.step = 3 /\ c2.step = 2
        /\ c3.input # c2.input
        /\ c2.input # NilResult

\* C26: for every fetched item, scraped item or feed item, the ingestion
\* step and the filter step hash the same content, the item's URL (link) if
\* it is not empty and otherwise id + source, so that an item one of them
\* recorded is present for the other.
C26_FingerprintPolicy ==
    \A p \in Workers :
        loc[p].kind \in {"scraper.filterNewItems", "rss.filterNewItems",
                         "filter.dedupeScrapedItems", "filter.dedupeRSSItems"}
        => LET it == loc[p].pending[1]
               policy == IF it.url # "" THEN it.url ELSE it.id \o it.source
               feed == loc[p].kind \in {"rss.filterNewItems",
                                        "filter.dedupeRSSItems"}
           IN /\ loc[p].newHashes = <<HashContent(policy)>>
              /\ ExistsForTask(HashContent(IF feed THEN RSSContent(it)
                                           ELSE ScraperContent(it)),
                               loc[p].task)
              /\ ExistsForTask(HashContent(IF feed THEN FilterRSSContent(it)
                                           ELSE FilterContent(it)),
                               loc[p].task)

\* C27: the scraper step returns an error exactly when every configured
\* source failed (a source that is not registered or whose scrape returned
\* an error); with one source that succeeded the step succeeds.
C27_ScraperFailsWhenAllFailed ==
    \A p \in Workers :
        (pc[p] = "step_end" /\ StepOf(loc[p]).type = "scraper")
        => LET sources == StepOf(loc[p]).sources
           IN (loc[p].err # "")
              <=> (sources # <<>> /\ Len(loc[p].errors) = Len(sources))

\* C28: the monitor of the entry map is never held while a pipeline run is
\* in progress or awaited.  No goroutine that is inside a run holds it, and
\* no goroutine holds it while it waits for a firing whose run is in
\* progress.
C28_MonitorNotHeldAcrossRun ==
    /\ \A p \in Workers : InRun(p) => muWriter # p
    /\ \A q \in Procs :
         (muWriter = q /\ pc[q] = "stop_wait")
         => ~\E p \in JobsInFlight : InRun(p)

\* C29: every run reaches a terminal state.  Every execution record that
\* Run created has status completed or failed from some point on, and no
\* execution is at status running once the Run that created it is past the
\* call that writes the terminal status.
C29_RunTerminates ==
    /\ \A k \in 1..MaxRuns :
         (Len(executions) >= k)
         ~> (/\ Len(executions) >= k
             /\ executions[k].status \in {ExecutionStatusCompleted,
                                          ExecutionStatusFailed})
    /\ [](\A k \in DOMAIN executions :
            executions[k].status = ExecutionStatusRunning
            => \E p \in Workers :
                 InRun(p) /\ ~RunEnded(p) /\ loc[p].execID = k)

\* Two runs have returned and both of their executions are completed.
C29_Witness ==
    /\ Len(executions) = 2
    /\ \A k \in 1..2 : executions[k].status = ExecutionStatusCompleted
    /\ \A p \in Workers : pc[p] = "idle"

\* C30: add_batch is all or nothing.  A call of AddBatch in which an INSERT
\* or the Commit fails leaves the cache as it was, so none of the batch's
\* fingerprints is present because of that call; a call that succeeds leaves
\* every fingerprint of the batch present for the task.
C30_AddBatchAllOrNothing ==
    [][\A p \in Workers :
         (pc[p] = "cache_add" /\ pc'[p] # "cache_add")
         => LET l == loc[p]
                failed == loc'[p].addFailed /\ ~l.addFailed
            IN /\ failed => cache' = cache
               /\ ~loc'[p].addFailed
                  => \A i \in 1..Len(l.newHashes) :
                       \E row \in cache' :
                           /\ row.content_hash = l.newHashes[i]
                           /\ row.task_id = l.task]_vars

\* An AddBatch call with a batch of two fingerprints has failed and the
\* cache holds neither.
C30_Witness ==
    \E p \in Workers :
        /\ pc[p] = "step_end"
        /\ loc[p].addFailed
        /\ Len(loc[p].result.items) = 2
        /\ \A i \in 1..2 :
             ~ExistsForTask(Fingerprint(loc[p].result.items[i]), loc[p].task)

\* C31: a create request with a scraper step is accepted exactly when the
\* step's config has at least one of the keys source, sources and category;
\* a config with the key category alone passes and the task is created.
C31_ScraperValidation ==
    \A h \in Handlers :
        loc[h].kind = "create"
        => LET rejected == pc[h] = "idle"
               step == IF rejected THEN loc[h].pipeline[1]
                       ELSE tasks[loc[h].task].pipeline[1]
           IN /\ rejected <=> step.keys = {}
              /\ ~rejected => tasks[loc[h].task].exists

\* C32: a persisted status of running corresponds to an execution in
\* flight.  Under any interleaving of runs with update requests for the
\* same task, and before any cancellation by Stop, a task whose row is at
\* status running has a run in progress.
C32_RunningHasRun ==
    \A t \in TaskIDs :
        (tasks[t].exists /\ tasks[t].status = TaskStatusRunning
                         /\ ~ctxCancelled)
        => \E p \in Workers : InRun(p) /\ loc[p].task = t

\* C33: every enabled task stays scheduled.  While the scheduler is running,
\* once no run, firing or request for a task is in progress, a task whose
\* row is at status enabled and whose schedule parses has an entry in the
\* entry map.
C33_EnabledStaysScheduled ==
    \A t \in TaskIDs :
        (/\ running /\ cronRunning /\ ~ctxCancelled
         /\ pc["main"] = "serving"
         /\ tasks[t].exists
         /\ tasks[t].status = TaskStatusEnabled
         /\ CronParses(Normalize(tasks[t].schedule))
         /\ \A p \in Workers \cup Handlers :
              pc[p] = "idle" \/ (loc[p].task # t /\ loc[p].entry # t))
        => entryMap[t] # 0

\* C34: the runner never enables a task the operator disabled.  A row that
\* is at status disabled when Run comes to its end, because it was disabled
\* when the trigger read it or because an update request disabled it during
\* the run, is at status disabled after Run wrote the task's status.
C34_RunnerKeepsDisabled ==
    [][\A p \in Workers :
         (/\ pc[p] = "run_enable" /\ pc'[p] # "run_enable"
          /\ tasks[loc[p].task].status = TaskStatusDisabled)
         => tasks'[loc[p].task].status = TaskStatusDisabled]_vars

\* C35: one live timer entry per task.  After any sequence of start, add,
\* update and remove calls each task has at most one entry in the
\* dispatcher, and it has one exactly when it is a key of the entry map,
\* which then holds that entry's id.
C35_OneEntryPerTask ==
    \A t \in TaskIDs :
        /\ Cardinality(EntriesOf(t)) <= 1
        /\ EntriesOf(t) # {} <=> entryMap[t] # 0
        /\ \A e \in EntriesOf(t) : e.id = entryMap[t]

\* C36: a firing removes the task's entry only when the task no longer
\* exists in the store.  When the firing's re-read of the task fails while
\* the row exists (its context is cancelled or timed out), the firing leaves
\* the entry map and the dispatcher's entries as they are.
C36_RemoveOnlyWhenGone ==
    [][\A p \in Workers :
         (pc[p] \in {"fc_find", "fc_remove"} /\ pc'[p] # pc[p]
                                            /\ tasks[loc[p].entry].exists)
         => /\ entryMap' = entryMap
            /\ cronEntries' = cronEntries]_vars

\* C37: recorded implies emitted.  Every fingerprint that a deduplicating
\* filter step inserts into the cache belongs to an item of the step's
\* output: no item is recorded as seen and then cut off by the limit.
C37_RecordedImpliesEmitted ==
    [][\A p \in Workers :
         (pc[p] = "cache_add" /\ pc'[p] = "step_end"
                              /\ StepOf(loc[p]).type = "filter")
         => \A row \in cache' \ cache :
              \E i \in 1..Len(loc'[p].result.items) :
                  row.content_hash =
                      HashContent(FilterContent(loc'[p].result.items[i]))]_vars

\* C38: cache isolation between tasks.  Whatever task_id the stored config
\* of a step carries, every cache row a run of task T writes is keyed by T,
\* and an item whose lookup did not fail is dropped exactly when a row
\* keyed by T holds its hash.
C38_CacheKeyedByRunTask ==
    [][\A p \in Workers :
         /\ pc[p] = "cache_add"
            => \A row \in cache' \ cache : row.task_id = loc[p].task
         /\ (/\ pc[p] = "cache_check"
             /\ loc'[p] # loc[p]
             /\ Head(loc[p].pending) \notin loc'[p].lookupFailed)
            => LET item == Head(loc[p].pending)
                   hash == HashContent(
                       IF StepOf(loc[p]).type = "scraper"
                       THEN ScraperContent(item) ELSE FilterContent(item))
               IN (Len(loc'[p].newHashes) = Len(loc[p].newHashes))
                  <=> ExistsForTask(hash, loc[p].task)]_vars

\* A run of t1 whose filter config carries the id of t2 has recorded a row
\* of its own while rows of t2 hold the same hashes.
C38_Witness ==
    \E p \in Workers :
        /\ pc[p] = "step_end"
        /\ loc[p].task = "t1"
        /\ StepOf(loc[p]).type = "filter"
        /\ StepOf(loc[p]).task_id = "t2"
        /\ \E r1, r2 \in cache :
              /\ r1.task_id = "t1" /\ r1.source = "filter"
              /\ r2.task_id = "t2" /\ r2.content_hash = r1.content_hash

\* C39: a failed update leaves the schedule unchanged.  When
\* Scheduler.UpdateTask returns for an enabled task whose new schedule does
\* not parse, the entry the task had before the call is still the one the
\* map holds and is still among the dispatcher's entries.
C39_FailedUpdateKeepsEntry ==
    [][\A h \in Handlers :
         LET t == loc[h].task IN
         (/\ pc[h] = "update_task" /\ pc'[h] = "idle"
          /\ loc[h].row.status = TaskStatusEnabled
          /\ ~CronParses(Normalize(loc[h].row.schedule))
          /\ entryMap[t] # 0)
         => /\ entryMap'[t] = entryMap[t]
            /\ \E e \in cronEntries' : e.task = t /\ e.id = entryMap[t]]_vars

====
